---- MODULE Spec2Model ----
(***************************************************************************)
(* A model of the WebSocket engine of go-dai (package websocket):          *)
(*   - Server.handleRequest / Server.upgrade / Server.messageLoop          *)
(*     (src/websocket/server.go),                                          *)
(*   - ConnManager and ConnEventBus (src/websocket/connManager.go),        *)
(*   - Conn.writeFrame and its callers (src/websocket/server.go),          *)
(*   - Router, buildChain and Context.JSON (src/websocket/router.go,       *)
(*     src/websocket/context.go, src/websocket/middleware.go).             *)
(*                                                                         *)
(* The specifications share the variables:                                 *)
(*   Spec         the server: concurrent requests, their upgrade           *)
(*                goroutines, the registry, the event log and application  *)
(*                goroutines calling CloseConnByConnID;                    *)
(*   SpecUpgrade  one request with every combination of handshake headers; *)
(*   SpecWrite    the goroutines that write frames on one connection;      *)
(*   SpecRouter   Use, Register and Dispatch on a router;                  *)
(*   SpecLoop     one connection's life with its message loop;             *)
(*   SpecFanout   Broadcast and Multicast over connections that come and   *)
(*                go;                                                      *)
(*   SpecBus      the event bus: Subscribe, Unsubscribe, Publish and the   *)
(*                listener goroutines (FairSpecBus adds the scheduling);   *)
(*   SpecPanic    the event bus with a listener whose callback panics;     *)
(*   SpecAttr     SetConnAttr and GetConnAttr on connections that come     *)
(*                and go;                                                  *)
(*   SpecCodec    writeFrame and readFrame on the bytes of one frame;      *)
(*   SpecRead     one connection's life with ReadMessage reading the       *)
(*                frames its client sent;                                  *)
(*   SpecWire     the same with a client that sends any frames: reserved   *)
(*                bits, undefined opcodes, every length form;              *)
(*   SpecKick     connections closed by ID by the application at any       *)
(*                moment (FairSpecKick adds the scheduling);               *)
(*   SpecStop     the server of Spec with Server.Stop at any moment.       *)
(***************************************************************************)
EXTENDS Integers, Sequences, FiniteSets, TLC

\* ------------------------------------------------------------------ bounds

\* Number of HTTP requests that reach handleRequest.
NumRequests == 2

\* ServerConfig.MaxConnections of the modelled server (the default is 1000).
MaxConnections == 1

\* Frames each writer goroutine of SpecWrite may write.
MaxWrites == 1

\* ServerConfig.MaxMessageSize of a server configured with a small limit, in
\* bytes (the default is 1024 * 1024).
MaxMessageSize == 2

\* ------------------------------------------------------------------ threads

Requests == 1 .. NumRequests

\* The application goroutine that calls CloseConnByConnID, any number of
\* times, concurrently with the workers.
AppThreads == {NumRequests + 1}

Threads == Requests \cup AppThreads

\* uuid.NewString(): the connection of request r gets the fresh ID r.
NewConnID(r) == r

\* An ID that AddConn never returned (an application may pass any string).
BogusID == 0

ConnIDs == {NewConnID(r) : r \in Requests}

EventConnOnline == "websocket.conn.online"

EventConnOffline == "websocket.conn.offline"

VARIABLES
    \* ---- Server.handleRequest, one invocation per request
    pc,               \* position of each thread (request handler or application goroutine)
    connectionCount,  \* Server.connectionCount
    currentConn,      \* the value atomic.AddInt32 returned to the request
    hdr,              \* the handshake headers of the request
    httpError,        \* the text http.Error wrote for the request ("" = none)
    handshakeDone,    \* the channel of the request: "open" or "closed"
    \* ---- the goroutine running Server.upgrade
    upc,              \* its position
    err,              \* the error upgrade returned ("" = nil)
    hijacked,         \* hijacker.Hijack() took the transport over
    wrote101,         \* the 101 response was written on the hijacked transport
    fault,            \* the panic that ended the process ("none" = running)
    \* ---- ConnManager / ConnEventBus
    connMap,          \* the IDs stored in ConnManager.connMap
    published,        \* per connection, the events handed to ConnEventBus.Publish, in order
    target,           \* connID argument of the thread's RemoveConn call
    reason,           \* closeReason of the thread
    \* ---- Conn
    closeFrames,      \* close frames written on the transport of each connection
    closed,           \* conn.Close() was called on the transport
    \* ---- history of the registry (not program state)
    removeCalls,      \* RemoveConn calls made for each ID (0, 1, 2 = two or more)
    removedReason,    \* the reason of the call whose LoadAndDelete found the record
    cfgOrigin,        \* ServerConfig.Origin
    \* ---- set once per server, handshake or connection
    inShutdown,       \* Server.Stop has called http.Server.Shutdown
    accept,           \* the Sec-WebSocket-Accept value of the 101 response of the request
    connCfg,          \* per connection, Conn.maxMsgSize, readTimeout and writeTimeout
    \* ---- writers of one connection (SpecWrite)
    wire,             \* the chunks passed to conn.Write, in order
    wpc,              \* position of each writer inside writeFrame
    wframe,           \* the frame the writer is writing
    wcount,           \* frames the writer has started
    \* ---- Router and Server.middlewares
    middlewares,      \* Server.middlewares, the global chain, in the order of Use
    handlers,         \* Router.handlers: the composed HandlerFunc of each action
    routes,           \* history: the lists each action's Register call composed
    \* ---- Server.messageLoop
    msg,              \* rawMsg, the message the worker has read and is handling
    served,           \* per connection, the outcome of each message handled, in order
    \* ---- ConnManager.Broadcast / Multicast
    fanout,           \* the last fan-out call and what it did
    \* ---- ConnEventBus
    listeners,        \* ConnEventBus.listeners: listener ID -> listener
    lastSubscribe,    \* history: the listener of the latest Subscribe/Unsubscribe call
    goroutines,       \* the goroutines Publish started, in the order started
    \* ---- ConnInfo.attrs
    attrs,            \* per connection record, ConnInfo.attrs: key -> value
    attrCalls,        \* history: the latest value set per key, the latest Get and its result
    \* ---- Conn.ReadMessage
    stream,           \* per connection, the frames the client sent, how many were read, the bytes not read yet
    message,          \* per connection, ReadMessage's `message`: the payload gathered so far
    delivered,        \* per connection, the messages ReadMessage returned and the frames read by then
    sent,             \* per connection, the frames the read path wrote, in order
    \* ---- Conn.writeFrame / Conn.readFrame as functions
    codec             \* one frame: what was asked, the bytes written, what was read back

serverVars == <<pc, connectionCount, currentConn, hdr, httpError, handshakeDone>>

upgradeVars == <<upc, err, hijacked, wrote101>>

registryVars == <<connMap, published, target, reason, removeCalls, removedReason>>

connVars == <<closeFrames, closed>>

writeVars == <<wire, wpc, wframe, wcount>>

routerVars == <<middlewares, handlers, routes>>

loopVars == <<msg, served>>

\* What application calls set up or drive, the event goroutines apart.
busVars == <<listeners, lastSubscribe>>

attrVars == <<attrs, attrCalls>>

frameVars == <<stream, message, delivered, sent>>

dataVars == <<attrVars, frameVars, codec>>

\* The configuration and what is derived from it once: the Shutdown flag, the
\* answer of each handshake, the limits of each Conn.
onceVars == <<cfgOrigin, inShutdown, accept, connCfg>>

userVars == <<routerVars, loopVars, fanout, busVars, dataVars>>

vars == <<serverVars, upgradeVars, fault, registryVars, connVars, onceVars, writeVars,
          userVars, goroutines>>

\* ------------------------------------------------------------------ values

\* ServerConfig.Origin values of the runs: the wildcard and one fixed origin.
AllowedOrigin == "https://app.example"

OtherOrigin == "https://evil.example"

\* The Sec-WebSocket-Key values of the requests that carry one.
ClientKeys == {"dGhlIHNhbXBsZSBub25jZQ==", "x3JJHMbDL1EzLkh9GBhXDw=="}

\* r.Header.Get of the five headers upgrade reads ("" = header absent).
Headers ==
    [upgrade    : {"websocket", "h2c"},
     connection : {"Upgrade", "upgrade", "UPGRADE", "keep-alive", ""},
     version    : {"13", "8"},
     origin     : {"", AllowedOrigin, OtherOrigin},
     key        : {""} \cup ClientKeys]

ValidRequest ==
    [upgrade |-> "websocket", connection |-> "Upgrade", version |-> "13",
     origin |-> AllowedOrigin, key |-> "dGhlIHNhbXBsZSBub25jZQ=="]

\* The requests of Spec pass every header check (SpecUpgrade has the others).
SomeHeaders == {ValidRequest}

\* A Go error is a tuple <<format, arguments...>>; nil is the empty tuple.
Nil == <<>>

ErrUpgrade == <<"invalid upgrade header (expected 'websocket')">>

ErrConnection == <<"invalid connection header (expected 'Upgrade')">>

ErrVersion == <<"unsupported websocket version (only RFC 6455/13 is supported)">>

ErrOrigin(origin) == <<"origin '%s' not allowed", origin>>

ErrKey == <<"missing 'Sec-WebSocket-Key' header">>

ErrHijack == <<"hijack failed: %v">>

ErrWrite101 == <<"write handshake response failed: %v">>

\* The checks of Server.upgrade before the hijack, in the order the code
\* evaluates them; the result is the error returned, Nil when all pass.
upgradeChecksSwapped(h, origin) ==
    IF h.connection # "Upgrade" /\ h.connection # "upgrade" THEN ErrConnection
    ELSE IF h.upgrade # "websocket" THEN ErrUpgrade
    ELSE IF h.version # "13" THEN ErrVersion
    ELSE IF origin # "*" /\ h.origin # "" /\ h.origin # origin THEN ErrOrigin(h.origin)
    ELSE IF h.key = "" THEN ErrKey
    ELSE Nil

upgradeChecks(h, origin) ==
    IF h.upgrade # "websocket" THEN ErrUpgrade
    ELSE IF h.connection # "Upgrade" /\ h.connection # "upgrade" THEN ErrConnection
    ELSE IF h.version # "13" THEN ErrVersion
    ELSE IF origin # "*" /\ h.origin # "" /\ h.origin # origin THEN ErrOrigin(h.origin)
    ELSE IF h.key = "" THEN ErrKey
    ELSE Nil

\* if currentConn > s.config.MaxConnections { reject }
OverLimitOffByOne(n) == n > MaxConnections + 1

OverLimit(n) == n > MaxConnections

\* atomic.AddInt32(&s.connectionCount, delta)
AddInt32(count, delta) == count + delta

\* The deferred atomic.AddInt32(&s.connectionCount, -1) of handleRequest.
DeferredDeltaSkipped(path) == IF path = "too many connections" THEN 0 ELSE -1

DeferredDelta(path) == -1

\* sync.Map.LoadAndDelete: the map without the key.
LoadOnly(m, k) == m

LoadAndDelete(m, k) == m \ {k}

\* ConnManager.GetConnByConnID: whether the lookup succeeds.
GetConnByConnID(connID) == connID \in connMap

OnlineEventAsOffline(connID) ==
    [EventType |-> EventConnOffline, ConnID |-> connID, CloseReason |-> ""]

\* The event AddConn publishes.
OnlineEvent(connID) ==
    [EventType |-> EventConnOnline, ConnID |-> connID, CloseReason |-> ""]

OfflineEventWithoutReason(connID, closeReason) ==
    [EventType |-> EventConnOffline, ConnID |-> connID, CloseReason |-> ""]

\* The event RemoveConn publishes.
OfflineEvent(connID, closeReason) ==
    [EventType |-> EventConnOffline, ConnID |-> connID, CloseReason |-> closeReason]

\* Indexes of the published events of one type for one connection.
EventsOf(type, connID) ==
    {i \in 1 .. Len(published[connID]) : published[connID][i].EventType = type}

Min(a, b) == IF a < b THEN a ELSE b

\* The errors of ReadMessage: the peer's close frame and the size violation
\* while the transport is open, the transport's own error once conn.Close()
\* has been called on it.
ErrClientClosed == "client closed connection"

ErrSizeLimit == "message size exceeds limit"

ErrUseOfClosed == "use of closed network connection"

\* A read that stays blocked when its transport is closed.
ReadErrorsBlockedOnClosed(connID) ==
    IF closed[connID] THEN {}
    ELSE {ErrClientClosed, ErrSizeLimit}

ReadErrors(connID) ==
    IF closed[connID] THEN {ErrUseOfClosed}
    ELSE {ErrClientClosed, ErrSizeLimit}

KickReason == "kicked by application"

\* ------------------------------------------------------------------ router values

\* Longest list of middlewares a Use sequence or a Register call builds.
MaxMiddlewares == 2

\* Messages one worker reads, and Dispatch calls made on a bare router.
MaxMessages == 2

\* The "action" values of the envelopes; only those of Routes are registered.
Actions == {"echo", "nope"}

Routes == {"echo"}

\* The "data" of an envelope: what the "auth" middleware looks at.
Data == {"token", "none"}

\* A HandlerFunc is the registered controller or what a middleware returned
\* for the HandlerFunc it was given; the nil of a map miss is NoHandler.
NoHandler == [kind |-> "nil", name |-> "", next |-> <<>>]

Controller == [kind |-> "handler", name |-> "H", next |-> <<>>]

\* MiddlewareFunc: m(next) is the HandlerFunc closing over next.
Middlewares == {"log", "auth"}

Wrap(m, next) == [kind |-> "middleware", name |-> m, next |-> next]

\* Whether the HandlerFunc of middleware m calls next(ctx): "log" always does,
\* "auth" only for an envelope that carries the token.
CallsNext(m, ctx) == m = "log" \/ ctx.data = "token"

\* buildChain: final := handler; for i := len-1 .. 0 { final = mws[i](final) }.
RECURSIVE buildChainFrom(_, _, _)
buildChainFrom(mws, i, final) ==
    IF i = 0 THEN final ELSE buildChainFrom(mws, i - 1, Wrap(mws[i], final))

RECURSIVE buildChainForward(_, _)
buildChainForward(mws, handler) ==
    IF mws = <<>> THEN handler
    ELSE buildChainForward(Tail(mws), Wrap(Head(mws), handler))

buildChain(mws, handler) == buildChainFrom(mws, Len(mws), handler)

\* The call f(ctx) of a HandlerFunc, as the sequence of its enter and leave
\* events: a middleware is entered, calls next or not, and is left.
\* A chain that is entered but has not returned when the call is over.
CallDetached(f, ctx) == << <<"enter", f.name>> >>

RECURSIVE Call(_, _)
Call(f, ctx) ==
    IF f.kind = "handler"
    THEN << <<"enter", f.name>>, <<"leave", f.name>> >>
    ELSE << <<"enter", f.name>> >>
         \o (IF CallsNext(f.name, ctx) THEN Call(f.next, ctx) ELSE <<>>)
         \o << <<"leave", f.name>> >>

\* A raw text message: malformed, or a JSON object with some of the fields
\* of the envelope ("action" and "data", or "data" alone).
RawMessages ==
    {[wellFormed |-> FALSE, object |-> <<>>]}
    \cup {[wellFormed |-> TRUE, object |-> [action |-> a, data |-> d]] :
             a \in Actions, d \in Data}
    \cup {[wellFormed |-> TRUE, object |-> [data |-> d]] : d \in Data}

NoMessage == [wellFormed |-> FALSE, object |-> [none |-> ""]]

\* json.Unmarshal into the envelope struct: a field the object lacks keeps its
\* zero value "".
Field(object, name) == IF name \in DOMAIN object THEN object[name] ELSE ""

\* The error json.Unmarshal returns for a text that is no JSON object.
ErrParse == <<"json: cannot unmarshal">>

\* Router.ParseMessage: the only error is that of json.Unmarshal.
ParseMessage(raw) ==
    IF ~raw.wellFormed
    THEN [action |-> "", data |-> "", err |-> ErrParse]
    ELSE [action |-> Field(raw.object, "action"), data |-> Field(raw.object, "data"),
          err |-> Nil]

\* The two structured responses, by their "code" (with "msg" and "data": null).
BadMessage == [code |-> 400, data |-> "null"]

InvalidAction == [code |-> 404, data |-> "null"]

ErrInvalidAction(action) == <<"invalid ws action: ", action>>

\* Router.Dispatch on the handler table h: a miss writes the 404 response
\* through ctx.JSON and returns the error; a hit calls the handler, then nil.
DispatchAsync(h, ctx) ==
    IF ctx.action \notin DOMAIN h \/ h[ctx.action] = NoHandler
    THEN [err |-> ErrInvalidAction(ctx.action), writes |-> <<InvalidAction>>,
          trace |-> <<>>]
    ELSE [err |-> Nil, writes |-> <<>>, trace |-> <<>>]

Dispatch(h, ctx) ==
    IF ctx.action \notin DOMAIN h \/ h[ctx.action] = NoHandler
    THEN [err |-> ErrInvalidAction(ctx.action), writes |-> <<InvalidAction>>,
          trace |-> <<>>]
    ELSE [err |-> Nil, writes |-> <<>>, trace |-> Call(h[ctx.action], ctx)]

\* One iteration of messageLoop on a message that was read: parse, then the
\* 400 response or NewContext and Dispatch (whose error is only logged).
HandleRaw(h, raw) ==
    LET parsed == ParseMessage(raw)
        ctx == [action |-> parsed.action, data |-> parsed.data]
        d == Dispatch(h, ctx)
    IN  IF parsed.err # Nil
        THEN [raw |-> raw, ctx |-> ctx, parseErr |-> parsed.err, dispatched |-> FALSE,
              err |-> Nil, writes |-> <<BadMessage>>, trace |-> <<>>]
        ELSE [raw |-> raw, ctx |-> ctx, parseErr |-> Nil, dispatched |-> TRUE,
              err |-> d.err, writes |-> d.writes, trace |-> d.trace]

\* Conn.WriteMessage of each response: it fails on a closed transport, and
\* the callers drop the error.
Written(writes, connID) ==
    [i \in 1 .. Len(writes) |->
        [code |-> writes[i].code, data |-> writes[i].data, ok |-> ~closed[connID]]]

\* ------------------------------------------------------------------ event bus values

ListenerIDs == {"a", "b"}

\* Two listeners; the OnConnEvent of "Lstuck" never returns.
Listeners == {"L1", "Lstuck"}

NoListener == "nil"

\* sync.Map.Store and sync.Map.Delete on the listeners.
StoreIfAbsent(m, k, v) == IF m[k] = NoListener THEN [m EXCEPT ![k] = v] ELSE m

Store(m, k, v) == [m EXCEPT ![k] = v]

Delete(m, k) == [m EXCEPT ![k] = NoListener]

\* Whether listener.OnConnEvent returns.
ReturnsNever(listener) == FALSE

Returns(listener) == listener # "Lstuck"

\* connManager.go line 225: `go listener.OnConnEvent(event)` defers no
\* recover, so the only callbacks that end quietly are those that do not panic.
Recovered(listener) == listener # "Lpanic"

\* The order in which Range visits the keys (any order: the goroutines it
\* starts run in any order anyway).
RangeOrder == <<"a", "b">>

Subscribed(i) == listeners[i] # NoListener

\* ConnEventBus.Publish: Range over the listeners, `go listener.OnConnEvent`
\* for each; the goroutines Publish starts for an event.
Started(event) ==
    LET ids == SelectSeq(RangeOrder, Subscribed)
    IN  [k \in 1 .. Len(ids) |->
            [id |-> ids[k], listener |-> listeners[ids[k]], event |-> event,
             at |-> "started"]]

\* ------------------------------------------------------------------ fan-out values

\* The connID lists an application passes: any IDs, each at most once.
IDLists ==
    LET IDs == ConnIDs \cup {BogusID}
    IN  {ids \in UNION {[1 .. k -> IDs] : k \in 0 .. Cardinality(IDs)} :
            \A i, j \in 1 .. Len(ids) : ids[i] = ids[j] => i = j}

\* The WriteMessage calls of a fan-out over the targets, in order; the write
\* fails for the connections of failing, and the error is assigned to _.
WriteEach(targets, failing) ==
    [k \in 1 .. Len(targets) |->
        [connID |-> targets[k], ok |-> targets[k] \notin failing]]

\* The keys of registry in the order Range visits them.
RECURSIVE RangeOver(_)
RangeOver(registry) ==
    IF registry = {} THEN <<>>
    ELSE LET x == CHOOSE y \in registry : \A z \in registry : y <= z
         IN  <<x>> \o RangeOver(registry \ {x})

\* ConnManager.Broadcast: Range over connMap, WriteMessage to each.
Broadcast(registry, failing) ==
    [attempts |-> WriteEach(RangeOver(registry), failing), warned |-> <<>>]

\* ConnManager.Multicast: for each ID of the list, Load; WriteMessage when the
\* record exists, logger.Warn with the ID when it does not.
RECURSIVE MulticastUntilMiss(_, _, _)
MulticastUntilMiss(registry, ids, failing) ==
    IF ids = <<>> THEN [attempts |-> <<>>, warned |-> <<>>]
    ELSE IF Head(ids) \notin registry
         THEN [attempts |-> <<>>, warned |-> <<Head(ids)>>]
         ELSE LET rest == MulticastUntilMiss(registry, Tail(ids), failing)
              IN  [attempts |-> WriteEach(<<Head(ids)>>, failing) \o rest.attempts,
                   warned |-> rest.warned]

RECURSIVE Multicast(_, _, _)
Multicast(registry, ids, failing) ==
    IF ids = <<>> THEN [attempts |-> <<>>, warned |-> <<>>]
    ELSE LET rest == Multicast(registry, Tail(ids), failing)
         IN  IF Head(ids) \in registry
             THEN [attempts |-> WriteEach(<<Head(ids)>>, failing) \o rest.attempts,
                   warned |-> rest.warned]
             ELSE [attempts |-> rest.attempts,
                   warned |-> <<Head(ids)>> \o rest.warned]

NoFanout ==
    [call |-> "none", ids |-> <<>>, registry |-> {}, failing |-> {},
     attempts |-> <<>>, warned |-> <<>>]

\* ------------------------------------------------------------------ frame values

\* server.go lines 22-29.
opCodeContinuation == 0

opCodeText == 1

opCodeBinary == 2

opCodeClose == 8

opCodePing == 9

opCodePong == 10

OpCodes == {opCodeContinuation, opCodeText, opCodeBinary,
            opCodeClose, opCodePing, opCodePong}

\* ServerConfig.MaxMessageSize as setDefaultConfig sets it (server.go line 507).
DefaultMaxMessageSize == 1024 * 1024

ErrPayloadTooLarge == "payload too large"

\* io.ReadFull on a transport that ends before the bytes asked for.
ErrEOF == "EOF"

\* a ^ b on two bytes.
RECURSIVE Xor(_, _)
Xor(a, b) ==
    IF a = 0 THEN b
    ELSE IF b = 0 THEN a
    ELSE ((a + b) % 2) + 2 * Xor(a \div 2, b \div 2)

\* byte(n >> 8*(width-1)), ..., byte(n >> 8), byte(n): n in `width` bytes,
\* most significant first (server.go lines 461-468 and 471).
RECURSIVE BigEndian(_, _)
BigEndian(n, width) ==
    IF width = 0 THEN <<>>
    ELSE Append(BigEndian(n \div 256, width - 1), n % 256)

\* server.go lines 391 and 397-400: payloadLen = payloadLen<<8 | b, byte by
\* byte.  The lengths of the model stay below 2^31.
FromBigEndianLastByte(bytes) == bytes[Len(bytes)]

RECURSIVE FromBigEndian(_)
FromBigEndian(bytes) ==
    IF bytes = <<>> THEN 0
    ELSE FromBigEndian(SubSeq(bytes, 1, Len(bytes) - 1)) * 256 + bytes[Len(bytes)]

firstByteWithoutFin(fin, opCode) == opCode % 256
\* server.go lines 440-443: byte(opCode), with 0x80 or-ed in when fin.  The
\* opcodes are below 16, so the bit is clear before it is set.
firstByte(fin, opCode) == (opCode % 256) + (IF fin THEN 128 ELSE 0)

secondByteAlways127(payloadLen) ==
    IF payloadLen < 126 THEN payloadLen % 256
    ELSE 127
\* server.go lines 447-455.
secondByte(payloadLen) ==
    IF payloadLen < 126 THEN payloadLen % 256
    ELSE IF payloadLen < 65536 THEN 126
    ELSE 127

\* server.go lines 439-472: the header writeFrame builds.
frameHeader(fin, opCode, payloadLen) ==
    <<firstByte(fin, opCode), secondByte(payloadLen)>>
    \o (IF payloadLen >= 65536 THEN BigEndian(payloadLen, 8)
        ELSE IF payloadLen >= 126 THEN BigEndian(payloadLen, 2)
        ELSE <<>>)

\* server.go lines 474-481: the bytes writeFrame passes to conn.Write, the
\* header and then, when it is not empty, the payload.
writeFrame(fin, opCode, payload) ==
    frameHeader(fin, opCode, Len(payload)) \o payload

MaskByteFromOne(mask, i) == mask[((i + 1) % 4) + 1]
\* server.go line 425: mask[i%4], for the payload index i counted from 0.
MaskByte(mask, i) == mask[(i % 4) + 1]

\* server.go lines 370-430: readFrame on a transport that holds `bytes`.
\* `read` counts the bytes taken from the transport.
readFrame(bytes, maxMsgSize) ==
    LET Failed(e, n) ==
            [fin |-> FALSE, opCode |-> 0, payload |-> <<>>, err |-> e, read |-> n]
    IN
    IF Len(bytes) < 1 THEN Failed(ErrEOF, 0)
    ELSE IF Len(bytes) < 2 THEN Failed(ErrEOF, 1)
    ELSE
    LET fin == bytes[1] >= 128
        opCode == bytes[1] % 16
        masked == bytes[2] >= 128
        len7 == bytes[2] % 128
        extLen == IF len7 = 126 THEN 2 ELSE IF len7 = 127 THEN 8 ELSE 0
    IN
    IF Len(bytes) < 2 + extLen THEN Failed(ErrEOF, Len(bytes))
    ELSE
    LET payloadLen == IF extLen = 0 THEN len7
                      ELSE FromBigEndian(SubSeq(bytes, 3, 2 + extLen))
        maskLen == IF masked THEN 4 ELSE 0
        at == 2 + extLen + maskLen
    IN
    IF payloadLen > maxMsgSize THEN Failed(ErrPayloadTooLarge, 2 + extLen)
    ELSE IF Len(bytes) < at + payloadLen THEN Failed(ErrEOF, Len(bytes))
    ELSE
    LET mask == SubSeq(bytes, at - 3, at)
        raw == SubSeq(bytes, at + 1, at + payloadLen)
    IN  [fin |-> fin,
         opCode |-> opCode,
         payload |-> IF masked
                     THEN [i \in 1 .. payloadLen |->
                              Xor(raw[i], MaskByte(mask, i - 1))]
                     ELSE raw,
         err |-> "",
         read |-> at + payloadLen]

\* A frame as an RFC 6455 client sends it: the mask bit set, the 4 mask bytes
\* after the length, payload byte i XORed with mask byte (i mod 4).
ClientFrame(fin, opCode, payload, mask) ==
    LET header == frameHeader(fin, opCode, Len(payload))
    IN  <<header[1], header[2] + 128>>
        \o SubSeq(header, 3, Len(header))
        \o mask
        \o [i \in 1 .. Len(payload) |-> Xor(payload[i], mask[((i - 1) % 4) + 1])]

\* Payload lengths around every boundary of the length encoding.
PayloadLens == {0, 1, 2, 3, 4, 5, 125, 126, 127, 65535, 65536}

\* A payload of n bytes whose bytes differ from one another; the seed varies
\* the content.
PayloadOf(n, seed) == [i \in 1 .. n |-> (seed + 37 * i) % 256]

Seeds == {0, 219}

Masks == {<<0, 0, 0, 0>>, <<18, 52, 86, 120>>, <<255, 128, 1, 170>>}

\* The mask under which the client of SpecRead sends its frames.
ClientMask == <<18, 52, 86, 120>>

\* What the client of one connection sends: data frames, final or not, whose
\* payload is one of two different single bytes or exceeds the size limit by
\* one byte, and control frames.
ClientFrames ==
    [fin : BOOLEAN, opCode : {opCodeText, opCodeContinuation},
     payload : {PayloadOf(1, 0), PayloadOf(1, 219), PayloadOf(MaxMessageSize + 1, 0)}]
    \cup [fin : {TRUE}, opCode : {opCodePing}, payload : {<<>>, PayloadOf(1, 0)}]
    \cup [fin : {TRUE}, opCode : {opCodePong}, payload : {PayloadOf(1, 0)}]
    \cup [fin : {TRUE}, opCode : {opCodeClose}, payload : {<<>>}]

\* The bytes of a sequence of client frames, in order.
RECURSIVE BytesOf(_)
BytesOf(frames) ==
    IF frames = <<>> THEN <<>>
    ELSE ClientFrame(Head(frames).fin, Head(frames).opCode, Head(frames).payload,
                     ClientMask)
         \o BytesOf(Tail(frames))

\* The client has sent nothing.
NoStream == [frames |-> <<>>, taken |-> 0, unread |-> <<>>]

PongFrameWithoutPayload(payload) ==
    [fin |-> TRUE, opCode |-> opCodePong, payload |-> <<>>, text |-> ""]
\* server.go line 327: the arguments of writeFrame(true, opCodePong, payload).
PongFrame(payload) ==
    [fin |-> TRUE, opCode |-> opCodePong, payload |-> payload, text |-> ""]

\* server.go lines 350-356: the frame WriteCloseMessage(code, reason) writes,
\* the code in 2 big-endian bytes and then the text of the reason.
CloseFrame(code, text) ==
    [fin |-> TRUE, opCode |-> opCodeClose, payload |-> BigEndian(code, 2),
     text |-> text]

appendInFront(slice, payload) == payload \o slice
\* server.go line 337: message = append(message, payload...).
append(slice, payload) == slice \o payload

AfterReadErrorReadingOn == "read"
\* server.go lines 223-227: an error of ReadMessage breaks the loop, and the
\* worker goes on to its deferred RemoveConn.
AfterReadError == "remove"

\* No frame has been asked for.
NoCodec ==
    [stage |-> "idle", fin |-> FALSE, opCode |-> 0, payload |-> <<>>,
     maxMsgSize |-> 0, masked |-> FALSE, bytes |-> <<>>,
     frame |-> [fin |-> FALSE, opCode |-> 0, payload |-> <<>>, err |-> "", read |-> 0]]

\* ------------------------------------------------------------------ Init

\* ------------------------------------------------------------------ crypto/sha1 and encoding/base64, as generateServerKey uses them

\* The characters of a key, of the GUID and of the base64 alphabet, in the
\* order of their ASCII codes, and the code of the first of each run.
Digits == <<"0", "1", "2", "3", "4", "5", "6", "7", "8", "9">>

UpperCase ==
    <<"A", "B", "C", "D", "E", "F", "G", "H", "I", "J", "K", "L", "M",
      "N", "O", "P", "Q", "R", "S", "T", "U", "V", "W", "X", "Y", "Z">>

LowerCase ==
    <<"a", "b", "c", "d", "e", "f", "g", "h", "i", "j", "k", "l", "m",
      "n", "o", "p", "q", "r", "s", "t", "u", "v", "w", "x", "y", "z">>

IndexOf(c, run) == CHOOSE i \in 1 .. Len(run) : run[i] = c

\* The byte of a character.
Ascii(c) ==
    CASE c = "+" -> 43
      [] c = "-" -> 45
      [] c = "/" -> 47
      [] c = "=" -> 61
      [] \E i \in 1 .. 10 : Digits[i] = c -> 47 + IndexOf(c, Digits)
      [] \E i \in 1 .. 26 : UpperCase[i] = c -> 64 + IndexOf(c, UpperCase)
      [] \E i \in 1 .. 26 : LowerCase[i] = c -> 96 + IndexOf(c, LowerCase)

\* The Sec-WebSocket-Key values of the requests, character by character.
Characters(key) ==
    CASE key = "dGhlIHNhbXBsZSBub25jZQ==" ->
            <<"d", "G", "h", "l", "I", "H", "N", "h", "b", "X", "B", "s",
              "Z", "S", "B", "u", "b", "2", "5", "j", "Z", "Q", "=", "=">>
      [] key = "x3JJHMbDL1EzLkh9GBhXDw==" ->
            <<"x", "3", "J", "J", "H", "M", "b", "D", "L", "1", "E", "z",
              "L", "k", "h", "9", "G", "B", "h", "X", "D", "w", "=", "=">>
      [] OTHER -> <<>>

\* []byte(s) of a string given by its characters.
BytesOfText(chars) == [i \in 1 .. Len(chars) |-> Ascii(chars[i])]

\* A uint32 is the pair <<hi, lo>> of its 16-bit halves.
RECURSIVE And(_, _)
And(a, b) ==
    IF a = 0 \/ b = 0 THEN 0
    ELSE (a % 2) * (b % 2) + 2 * And(a \div 2, b \div 2)

RECURSIVE Or(_, _)
Or(a, b) ==
    IF a = 0 THEN b
    ELSE IF b = 0 THEN a
    ELSE (IF (a % 2) + (b % 2) > 0 THEN 1 ELSE 0) + 2 * Or(a \div 2, b \div 2)

XorW(a, b) == <<Xor(a[1], b[1]), Xor(a[2], b[2])>>

AndW(a, b) == <<And(a[1], b[1]), And(a[2], b[2])>>

OrW(a, b) == <<Or(a[1], b[1]), Or(a[2], b[2])>>

NotW(a) == <<65535 - a[1], 65535 - a[2]>>

\* bits.RotateLeft32(a, n), 0 < n < 32.
RotL(a, n) ==
    LET hi == IF n < 16 THEN a[1] ELSE a[2]
        lo == IF n < 16 THEN a[2] ELSE a[1]
        k == n % 16
    IN  <<(hi * (2 ^ k) + lo \div (2 ^ (16 - k))) % 65536,
          (lo * (2 ^ k) + hi \div (2 ^ (16 - k))) % 65536>>

\* a + b on uint32: the sum modulo 2^32, by halves with the carry.
AddW(a, b) ==
    LET lo == a[2] + b[2]
        hi == a[1] + b[1] + (lo \div 65536)
    IN  <<hi % 65536, lo % 65536>>

\* The message padded to 64-byte blocks: 0x80, zeros, the bit length in 8 bytes.
sha1Padded(m) ==
    LET zeros == (55 - (Len(m) % 64)) % 64
    IN  m \o <<128>> \o [i \in 1 .. zeros |-> 0] \o BigEndian(8 * Len(m), 8)

\* The 16 words of block k (from 0) of the padded message p.
sha1Block(p, k) ==
    [j \in 1 .. 16 |->
        LET at == 64 * k + 4 * (j - 1)
        IN  <<p[at + 1] * 256 + p[at + 2], p[at + 3] * 256 + p[at + 4]>>]

\* The message schedule: w[t] = rotl1(w[t-3] ^ w[t-8] ^ w[t-14] ^ w[t-16]).
RECURSIVE sha1Schedule(_)
sha1Schedule(w) ==
    IF Len(w) = 80 THEN w
    ELSE LET t == Len(w) + 1
         IN  sha1Schedule(Append(w, RotL(XorW(XorW(w[t - 3], w[t - 8]),
                                              XorW(w[t - 14], w[t - 16])), 1)))

\* The round function and the round constant of round t (from 0).
sha1F(t, b, c, d) ==
    IF t < 20 THEN OrW(AndW(b, c), AndW(NotW(b), d))
    ELSE IF t < 40 THEN XorW(XorW(b, c), d)
    ELSE IF t < 60 THEN OrW(AndW(OrW(b, c), d), AndW(b, c))
    ELSE XorW(XorW(b, c), d)

sha1K(t) ==
    IF t < 20 THEN <<23170, 31129>>
    ELSE IF t < 40 THEN <<28377, 60321>>
    ELSE IF t < 60 THEN <<36635, 48348>>
    ELSE <<51810, 49622>>

\* The working variables <<a, b, c, d, e>> after round t (from 0) on s.
sha1Round(t, w, s) ==
    <<AddW(AddW(AddW(AddW(RotL(s[1], 5), sha1F(t, s[2], s[3], s[4])), s[5]),
                sha1K(t)), w[t + 1]),
      s[1], RotL(s[2], 30), s[3], s[4]>>

\* The working variables before round 0 and after each of the 80 rounds.
RECURSIVE sha1Rounds(_, _)
sha1Rounds(after, w) ==
    IF Len(after) = 81 THEN after
    ELSE sha1Rounds(Append(after, sha1Round(Len(after) - 1, w, after[Len(after)])), w)

\* The hash value after each block of p, from the initial value on.
RECURSIVE sha1Blocks(_, _)
sha1Blocks(p, hs) ==
    IF Len(hs) = (Len(p) \div 64) + 1 THEN hs
    ELSE LET h == hs[Len(hs)]
             s == sha1Rounds(<<h>>, sha1Schedule(sha1Block(p, Len(hs) - 1)))[81]
         IN  sha1Blocks(p, Append(hs, <<AddW(h[1], s[1]), AddW(h[2], s[2]),
                                        AddW(h[3], s[3]), AddW(h[4], s[4]),
                                        AddW(h[5], s[5])>>))

\* sha1.New, Write(m), Sum(nil): the 20 bytes of the digest.
sha1Sum(m) ==
    LET p == sha1Padded(m)
        hs == sha1Blocks(p, <<<<<<26437, 8961>>, <<61389, 43913>>, <<39098, 56574>>,
                                <<4146, 21622>>, <<50130, 57840>>>>>>)
        h == hs[Len(hs)]
    IN  [i \in 1 .. 20 |->
            LET half == h[((i - 1) \div 4) + 1][(((i - 1) % 4) \div 2) + 1]
            IN  IF i % 2 = 1 THEN half \div 256 ELSE half % 256]

\* The alphabet of base64.StdEncoding.
base64Alphabet == UpperCase \o LowerCase \o Digits \o <<"+", "/">>

\* base64.StdEncoding.EncodeToString: 4 characters for every 3 bytes, the
\* last group filled with "=".
RECURSIVE EncodeToString(_)
EncodeToString(src) ==
    LET digit(v) == base64Alphabet[(v % 64) + 1]
    IN  IF src = <<>> THEN ""
        ELSE IF Len(src) = 1
        THEN digit(src[1] \div 4) \o digit((src[1] % 4) * 16) \o "=="
        ELSE IF Len(src) = 2
        THEN LET v == src[1] * 256 + src[2]
             IN  digit(v \div 1024) \o digit(v \div 16) \o digit((v % 16) * 4) \o "="
        ELSE LET v == src[1] * 65536 + src[2] * 256 + src[3]
             IN  digit(v \div 262144) \o digit(v \div 4096) \o digit(v \div 64)
                 \o digit(v) \o EncodeToString(SubSeq(src, 4, Len(src)))

GUIDWithoutDashes ==
    <<"2", "5", "8", "E", "A", "F", "A", "5", "E", "9", "1", "4", "4", "7", "D", "A",
      "9", "5", "C", "A", "C", "5", "A", "B", "0", "D", "C", "8", "5", "B", "1", "1">>

\* The GUID of RFC 6455 that generateServerKey appends to the key.
GUID ==
    <<"2", "5", "8", "E", "A", "F", "A", "5", "-", "E", "9", "1", "4", "-",
      "4", "7", "D", "A", "-", "9", "5", "C", "A", "-",
      "C", "5", "A", "B", "0", "D", "C", "8", "5", "B", "1", "1">>

\* server.go lines 304-308.
generateServerKey(clientKey) ==
    EncodeToString(sha1Sum(BytesOfText(Characters(clientKey) \o GUID)))

\* The answer to each key a request carries.
serverKey == [clientKey \in ClientKeys |-> generateServerKey(clientKey)]

\* ------------------------------------------------------------------ Conn, its limits

\* ServerConfig.ReadTimeout and WriteTimeout in seconds, as setDefaultConfig
\* sets them (server.go lines 513 and 516).
ReadTimeout == 60

WriteTimeout == 60

\* server.go lines 296-300: the Conn upgrade builds has the zero limits.
NewConn == [maxMsgSize |-> 0, readTimeout |-> 0, writeTimeout |-> 0]

\* server.go lines 216-218: the limits messageLoop copies from the config.
ConfiguredConn ==
    [maxMsgSize |-> MaxMessageSize, readTimeout |-> ReadTimeout,
     writeTimeout |-> WriteTimeout]

\* server.go lines 433-437: the deadline writeFrame sets on the transport
\* before it writes, 0 for none.
WriteDeadline(conn) == IF conn.writeTimeout > 0 THEN conn.writeTimeout ELSE 0

NoHeaders ==
    [upgrade |-> "", connection |-> "", version |-> "", origin |-> "", key |-> ""]

NoFrame == [opCode |-> "none", payloadLen |-> 0]

Writers == {"worker", "broadcast", "closer"}

InitWrite ==
    /\ wire = <<>>
    /\ wpc = [w \in Writers |-> "idle"]
    /\ wframe = [w \in Writers |-> NoFrame]
    /\ wcount = [w \in Writers |-> 0]

\* No Stop yet, no 101 response written, and every Conn as upgrade builds it.
InitOnce ==
    /\ inShutdown = FALSE
    /\ accept = [r \in Requests |-> ""]
    /\ connCfg = [x \in ConnIDs |-> NewConn]

InitServer ==
    /\ pc = [t \in Threads |-> "idle"]
    /\ connectionCount = 0
    /\ currentConn = [r \in Requests |-> 0]
    /\ hdr = [r \in Requests |-> NoHeaders]
    /\ httpError = [r \in Requests |-> ""]
    /\ handshakeDone = [r \in Requests |-> "none"]
    /\ upc = [r \in Requests |-> "none"]
    /\ err = [r \in Requests |-> Nil]
    /\ hijacked = [r \in Requests |-> FALSE]
    /\ wrote101 = [r \in Requests |-> FALSE]
    /\ fault = "none"
    /\ connMap = {}
    /\ published = [x \in ConnIDs |-> <<>>]
    /\ target = [t \in Threads |-> BogusID]
    /\ reason = [t \in Threads |-> ""]
    /\ closeFrames = [x \in ConnIDs |-> 0]
    /\ closed = [x \in ConnIDs |-> FALSE]
    /\ removeCalls = [x \in ConnIDs |-> 0]
    /\ removedReason = [x \in ConnIDs |-> ""]

NoRoute == [registered |-> FALSE, global |-> <<>>, route |-> <<>>]

\* NewRouter and NewServer: no middleware, no handler.
InitRouter ==
    /\ middlewares = <<>>
    /\ handlers = [a \in Routes |-> NoHandler]
    /\ routes = [a \in Routes |-> NoRoute]

InitDriven ==
    /\ msg = [r \in Requests |-> NoMessage]
    /\ served = [r \in Requests |-> <<>>]
    /\ fanout = NoFanout
    /\ listeners = [i \in ListenerIDs |-> NoListener]
    /\ lastSubscribe = [i \in ListenerIDs |-> NoListener]
    /\ goroutines = <<>>

\* Keys and values an application stores with SetConnAttr.
AttrKeys == {"uid", "room"}

AttrValues == {"u1", "u2"}

\* No GetConnAttr call has been made yet.
NoCall == [connID |-> BogusID, key |-> "", value |-> "nil", found |-> FALSE]

\* AddConn builds each ConnInfo with the zero value of attrs, an empty sync.Map
\* (the value "nil" stands for a key the map does not hold).
InitAttrs ==
    /\ attrs = [x \in ConnIDs |-> [k \in AttrKeys |-> "nil"]]
    /\ attrCalls = [latest |-> [x \in ConnIDs |-> [k \in AttrKeys |-> "nil"]],
                    got |-> NoCall]

\* upgrade builds the Conn; nothing has been read or written after the 101.
InitFrames ==
    /\ stream = [x \in ConnIDs |-> NoStream]
    /\ message = [x \in ConnIDs |-> <<>>]
    /\ delivered = [x \in ConnIDs |-> <<>>]
    /\ sent = [x \in ConnIDs |-> <<>>]

InitUser == InitRouter /\ InitDriven /\ InitAttrs /\ InitFrames /\ codec = NoCodec

Init ==
    /\ InitServer
    /\ cfgOrigin = "*"
    /\ InitOnce
    /\ InitWrite
    /\ InitUser

\* ------------------------------------------------------------------ Server.handleRequest

\* Lines 155-178: a request with headers h arrives; the counter is incremented
\* and compared with MaxConnections.  Over the limit: http.Error and return
\* (only the deferred decrement is pending).  Otherwise the channel is made,
\* its close is deferred, the timer is started and the upgrade goroutine is
\* spawned; the handler waits in the select.
HandleRequest(r, h) ==
    /\ fault = "none"
    /\ ~inShutdown
    /\ pc[r] = "idle"
    /\ hdr' = [hdr EXCEPT ![r] = h]
    /\ connectionCount' = AddInt32(connectionCount, 1)
    /\ currentConn' = [currentConn EXCEPT ![r] = connectionCount']
    /\ IF OverLimit(connectionCount')
       THEN /\ httpError' = [httpError EXCEPT ![r] = "too many connections"]
            /\ pc' = [pc EXCEPT ![r] = "ret_decr"]
            /\ UNCHANGED <<handshakeDone, upc>>
       ELSE /\ handshakeDone' = [handshakeDone EXCEPT ![r] = "open"]
            /\ upc' = [upc EXCEPT ![r] = "checks"]
            /\ pc' = [pc EXCEPT ![r] = "select"]
            /\ UNCHANGED httpError
    /\ UNCHANGED <<err, hijacked, wrote101, fault, registryVars, connVars,
                   onceVars, writeVars, userVars, goroutines>>

\* Lines 180-185: case <-handshakeDone.  The goroutine is at its send; the
\* handler reads err: on an error http.Error and return, else go on to AddConn.
SelectHandshakeDone(r) ==
    /\ fault = "none"
    /\ pc[r] = "select"
    /\ upc[r] = "send"
    /\ handshakeDone[r] = "open"
    /\ upc' = [upc EXCEPT ![r] = "exited"]
    /\ IF err[r] # Nil
       THEN /\ httpError' = [httpError EXCEPT ![r] = "handshake failed"]
            /\ pc' = [pc EXCEPT ![r] = "ret_closech"]
       ELSE /\ pc' = [pc EXCEPT ![r] = "addconn_store"]
            /\ UNCHANGED httpError
    /\ UNCHANGED <<connectionCount, currentConn, hdr, handshakeDone, err,
                   hijacked, wrote101, fault, registryVars, connVars,
                   onceVars, writeVars, userVars, goroutines>>

\* Lines 186-188: case <-timeoutTimer.  The timer may fire at any moment of the
\* wait, wherever the upgrade goroutine stands.
SelectTimeout(r) ==
    /\ fault = "none"
    /\ pc[r] = "select"
    /\ httpError' = [httpError EXCEPT ![r] = "handshake timeout"]
    /\ pc' = [pc EXCEPT ![r] = "ret_closech"]
    /\ UNCHANGED <<connectionCount, currentConn, hdr, handshakeDone,
                   upgradeVars, fault, registryVars, connVars, onceVars,
                   writeVars, userVars, goroutines>>

\* Line 167: the deferred close(handshakeDone).
DeferredCloseChannel(r) ==
    /\ fault = "none"
    /\ pc[r] = "ret_closech"
    /\ handshakeDone' = [handshakeDone EXCEPT ![r] = "closed"]
    /\ pc' = [pc EXCEPT ![r] = "ret_decr"]
    /\ UNCHANGED <<connectionCount, currentConn, hdr, httpError, upgradeVars,
                   fault, registryVars, connVars, onceVars, writeVars,
                   userVars, goroutines>>

\* Line 158: the deferred decrement; handleRequest has returned and its local
\* currentConn is gone.
DeferredDecrement(r) ==
    /\ fault = "none"
    /\ pc[r] = "ret_decr"
    /\ connectionCount' = AddInt32(connectionCount, DeferredDelta(httpError[r]))
    /\ currentConn' = [currentConn EXCEPT ![r] = 0]
    /\ pc' = [pc EXCEPT ![r] = "done"]
    /\ UNCHANGED <<hdr, httpError, handshakeDone, upgradeVars, fault,
                   registryVars, connVars, onceVars, writeVars, userVars,
                   goroutines>>

\* ------------------------------------------------------------------ Server.Stop

\* What http.Server.Shutdown waits for: the connection of a request whose
\* handler is running and has not hijacked it.  A hijacked connection is no
\* longer tracked by the http.Server; one whose handler has returned is idle
\* or closed.
Active(r) == pc[r] \notin {"idle", "done"} /\ ~hijacked[r]

\* server.go lines 146-152, called from the signal goroutine of bootstrap.go
\* lines 137-156: s.server.Shutdown(nil).  Shutdown closes the listeners and
\* the idle connections and returns when no connection is active; otherwise
\* it waits in a select on ctx.Done(), and with the nil Context Stop passes
\* that call is a nil dereference: the panic, which nothing recovers, ends
\* the process.
Server_Stop ==
    /\ fault = "none"
    /\ ~inShutdown
    /\ inShutdown' = TRUE
    /\ fault' = IF \E r \in Requests : Active(r)
                THEN "nil Context in Shutdown" ELSE fault
    /\ UNCHANGED <<serverVars, upgradeVars, registryVars, connVars, cfgOrigin,
                   accept, connCfg, writeVars, userVars, goroutines>>

\* ------------------------------------------------------------------ Server.upgrade (goroutine)

\* Lines 249-270: the header checks.
UpgradeChecks(r) ==
    /\ fault = "none"
    /\ upc[r] = "checks"
    /\ err' = [err EXCEPT ![r] = upgradeChecks(hdr[r], cfgOrigin)]
    /\ upc' = [upc EXCEPT ![r] = IF err'[r] # Nil THEN "send" ELSE "hijack"]
    /\ UNCHANGED <<serverVars, hijacked, wrote101, fault, registryVars,
                   connVars, onceVars, writeVars, userVars, goroutines>>

\* Lines 273-277: Hijack succeeds.  net/http panics when Hijack is called after
\* ServeHTTP (handleRequest) has returned.
UpgradeHijack(r) ==
    /\ fault = "none"
    /\ upc[r] = "hijack"
    /\ IF pc[r] = "done"
       THEN /\ fault' = "Hijack called after ServeHTTP finished"
            /\ UNCHANGED <<upc, hijacked>>
       ELSE /\ hijacked' = [hijacked EXCEPT ![r] = TRUE]
            /\ upc' = [upc EXCEPT ![r] = "write101"]
            /\ UNCHANGED fault
    /\ UNCHANGED <<serverVars, err, wrote101, registryVars, connVars,
                   onceVars, writeVars, userVars, goroutines>>

\* Lines 273-280: the writer is no Hijacker, or Hijack returns an error.
UpgradeHijackFails(r) ==
    /\ fault = "none"
    /\ upc[r] = "hijack"
    /\ pc[r] # "done"
    /\ err' = [err EXCEPT ![r] = ErrHijack]
    /\ upc' = [upc EXCEPT ![r] = "send"]
    /\ UNCHANGED <<serverVars, hijacked, wrote101, fault, registryVars,
                   connVars, onceVars, writeVars, userVars, goroutines>>

\* Lines 270 and 283-300: serverKey := generateServerKey(clientKey); the 101
\* response with it is written and the Conn is built.
UpgradeWrite101(r) ==
    /\ fault = "none"
    /\ upc[r] = "write101"
    /\ accept' = [accept EXCEPT ![r] = serverKey[hdr[r].key]]
    /\ wrote101' = [wrote101 EXCEPT ![r] = TRUE]
    /\ upc' = [upc EXCEPT ![r] = "send"]
    /\ UNCHANGED <<serverVars, err, hijacked, fault, registryVars, connVars,
                   cfgOrigin, inShutdown, connCfg, writeVars, userVars,
                   goroutines>>

\* Lines 290-294: the write of the 101 response fails; the transport is closed.
UpgradeWrite101Fails(r) ==
    /\ fault = "none"
    /\ upc[r] = "write101"
    /\ err' = [err EXCEPT ![r] = ErrWrite101]
    /\ upc' = [upc EXCEPT ![r] = "send"]
    /\ UNCHANGED <<serverVars, hijacked, wrote101, fault, registryVars,
                   connVars, onceVars, writeVars, userVars, goroutines>>

\* Line 177: handshakeDone <- struct{}{} on a channel the handler has closed
\* (whether the goroutine was already blocked in the send or reaches it later):
\* a panic in a goroutine nobody recovers, which ends the process.
SendOnClosedChannel(r) ==
    /\ fault = "none"
    /\ upc[r] = "send"
    /\ handshakeDone[r] = "closed"
    /\ fault' = "send on closed channel"
    /\ UNCHANGED <<serverVars, upgradeVars, registryVars, connVars, onceVars,
                   writeVars, userVars, goroutines>>

\* ------------------------------------------------------------------ ConnEventBus.Publish

\* connManager.go lines 220-229: the event is handed to Publish, which starts
\* one goroutine per subscribed listener and returns.
Publish(event) ==
    /\ published' = [published EXCEPT ![event.ConnID] = Append(@, event)]
    /\ goroutines' = goroutines \o Started(event)

\* ------------------------------------------------------------------ ConnManager.AddConn

\* connManager.go lines 48-55: a fresh ID, cm.connMap.Store(connID, connInfo).
AddConn_Store(r) ==
    /\ fault = "none"
    /\ pc[r] = "addconn_store"
    /\ target' = [target EXCEPT ![r] = NewConnID(r)]
    /\ connMap' = connMap \cup {NewConnID(r)}
    /\ pc' = [pc EXCEPT ![r] = "addconn_publish"]
    /\ UNCHANGED <<connectionCount, currentConn, hdr, httpError, handshakeDone,
                   upgradeVars, fault, published, reason, removeCalls,
                   removedReason, connVars, onceVars, writeVars, userVars,
                   goroutines>>

\* connManager.go lines 59-66: Publish(online) and return; server.go lines
\* 195-205: closeReason := "normal closure", the removal is deferred and
\* messageLoop is called.
AddConn_Publish(r) ==
    /\ fault = "none"
    /\ pc[r] = "addconn_publish"
    /\ Publish(OnlineEvent(target[r]))
    /\ reason' = [reason EXCEPT ![r] = "normal closure"]
    /\ pc' = [pc EXCEPT ![r] = "configure"]
    /\ UNCHANGED <<connectionCount, currentConn, hdr, httpError, handshakeDone,
                   upgradeVars, fault, connMap, target, removeCalls,
                   removedReason, connVars, onceVars, writeVars, userVars>>

\* server.go lines 216-218: messageLoop copies the limits of the config into
\* the Conn, then enters its loop.
MessageLoop_Configure(r) ==
    /\ fault = "none"
    /\ pc[r] = "configure"
    /\ connCfg' = [connCfg EXCEPT ![NewConnID(r)] = ConfiguredConn]
    /\ pc' = [pc EXCEPT ![r] = "read"]
    /\ UNCHANGED <<connectionCount, currentConn, hdr, httpError, handshakeDone,
                   upgradeVars, fault, registryVars, connVars, cfgOrigin,
                   inShutdown, accept, writeVars, userVars, goroutines>>

\* ------------------------------------------------------------------ Server.messageLoop

\* server.go lines 222-227: ReadMessage returns an error; closeReason takes its
\* text and the loop breaks.  For the size violation ReadMessage has written
\* the 1009 close frame first (lines 333-336).
ReadMessageFails(r, e) ==
    /\ fault = "none"
    /\ pc[r] = "read"
    /\ e \in ReadErrors(target[r])
    /\ reason' = [reason EXCEPT ![r] = e]
    /\ closeFrames' = [closeFrames EXCEPT
                          ![target[r]] = IF e = ErrSizeLimit THEN @ + 1 ELSE @]
    /\ pc' = [pc EXCEPT ![r] = "remove"]
    /\ UNCHANGED <<connectionCount, currentConn, hdr, httpError, handshakeDone,
                   upgradeVars, fault, connMap, published, target, removeCalls,
                   removedReason, closed, onceVars, writeVars, userVars,
                   goroutines>>

\* ------------------------------------------------------------------ ConnManager.RemoveConn

\* Where a thread continues when RemoveConn returns: the worker goes on to its
\* own wsConn.Close() (server.go line 201), an application goroutine is free.
AfterRemoveConn(t) == IF t \in Requests THEN "ws_close_write" ELSE "idle"

\* A local of a RemoveConn call that has returned: the worker keeps the value
\* (its connID), an application goroutine has none.
LocalsAfter(t, f, v) == IF t \in Requests THEN [f EXCEPT ![t] = v] ELSE f

\* connManager.go lines 71-74: LoadAndDelete; return when the record is absent.
\* removeCalls counts the calls made for an ID of the registry.
RemoveConn_LoadAndDelete(t, connID, closeReason) ==
    /\ fault = "none"
    /\ IF connID \in connMap
       THEN /\ connMap' = LoadAndDelete(connMap, connID)
            /\ removedReason' = [removedReason EXCEPT ![connID] = closeReason]
            /\ target' = [target EXCEPT ![t] = connID]
            /\ reason' = [reason EXCEPT ![t] = closeReason]
            /\ pc' = [pc EXCEPT ![t] = "rm_publish"]
       ELSE /\ pc' = [pc EXCEPT ![t] = AfterRemoveConn(t)]
            /\ target' = LocalsAfter(t, target, connID)
            /\ reason' = [reason EXCEPT ![t] = ""]
            /\ UNCHANGED <<connMap, removedReason>>
    /\ removeCalls' = IF connID \in ConnIDs
                      THEN [removeCalls EXCEPT ![connID] = Min(@ + 1, 2)]
                      ELSE removeCalls
    /\ UNCHANGED <<connectionCount, currentConn, hdr, httpError, handshakeDone,
                   upgradeVars, fault, published, connVars, onceVars,
                   writeVars, userVars, goroutines>>

\* server.go lines 199-200: the worker's deferred RemoveConn(connID, closeReason).
WorkerRemoveConn(r) ==
    /\ pc[r] = "remove"
    /\ RemoveConn_LoadAndDelete(r, target[r], reason[r])

\* connManager.go lines 166-168: application code closes a connection.  It can
\* name an ID it has learnt (the online event carries it; handlers get it after
\* AddConn has returned) or a string that is no ID of the registry.
CloseConnByConnID(t, connID) ==
    /\ t \in AppThreads
    /\ pc[t] = "idle"
    /\ \/ connID = BogusID
       \/ /\ connID \in ConnIDs
          /\ EventsOf(EventConnOnline, connID) \cup EventsOf(EventConnOffline, connID) # {}
    /\ RemoveConn_LoadAndDelete(t, connID, KickReason)

\* connManager.go lines 79-84: Publish(offline, closeReason).
RemoveConn_Publish(t) ==
    /\ fault = "none"
    /\ pc[t] = "rm_publish"
    /\ Publish(OfflineEvent(target[t], reason[t]))
    /\ pc' = [pc EXCEPT ![t] = "rm_close_write"]
    /\ UNCHANGED <<connectionCount, currentConn, hdr, httpError, handshakeDone,
                   upgradeVars, fault, connMap, target, reason, removeCalls,
                   removedReason, connVars, onceVars, writeVars, userVars>>

\* ------------------------------------------------------------------ Conn.Close

\* server.go line 359: WriteCloseMessage(1000, "normal closure"); the write
\* fails, and its error is dropped, when the transport is already closed.
Close_WriteCloseMessage(t, from, to) ==
    /\ fault = "none"
    /\ pc[t] = from
    /\ closeFrames' = [closeFrames EXCEPT
                          ![target[t]] = IF closed[target[t]] THEN @ ELSE @ + 1]
    /\ pc' = [pc EXCEPT ![t] = to]
    /\ UNCHANGED <<connectionCount, currentConn, hdr, httpError, handshakeDone,
                   upgradeVars, fault, registryVars, closed, onceVars,
                   writeVars, userVars, goroutines>>

\* server.go line 360: c.conn.Close().  A RemoveConn that returns here has no
\* further use of closeReason; an application goroutine drops the connID too.
Close_ConnClose(t, from, to) ==
    /\ fault = "none"
    /\ pc[t] = from
    /\ closed' = [closed EXCEPT ![target[t]] = TRUE]
    /\ pc' = [pc EXCEPT ![t] = to]
    /\ target' = LocalsAfter(t, [target EXCEPT ![t] = BogusID], target[t])
    /\ reason' = [reason EXCEPT ![t] = ""]
    /\ UNCHANGED <<connectionCount, currentConn, hdr, httpError, handshakeDone,
                   upgradeVars, fault, connMap, published, removeCalls,
                   removedReason, closeFrames, onceVars, writeVars, userVars,
                   goroutines>>

\* connManager.go line 86: info.Conn.Close() inside RemoveConn.
RemoveConn_Close(t) ==
    \/ Close_WriteCloseMessage(t, "rm_close_write", "rm_close_conn")
    \/ Close_ConnClose(t, "rm_close_conn", AfterRemoveConn(t))

\* server.go line 201: the worker's own wsConn.Close() after RemoveConn.
WorkerClose(r) ==
    \/ Close_WriteCloseMessage(r, "ws_close_write", "ws_close_conn")
    \/ Close_ConnClose(r, "ws_close_conn", "ret_closech")

\* ------------------------------------------------------------------ Spec

ServerNext(R, H) ==
    \/ \E r \in R, h \in H : HandleRequest(r, h)
    \/ \E r \in R : SelectHandshakeDone(r)
    \/ \E r \in R : SelectTimeout(r)
    \/ \E r \in R : UpgradeChecks(r)
    \/ \E r \in R : UpgradeHijack(r)
    \/ \E r \in R : UpgradeHijackFails(r)
    \/ \E r \in R : UpgradeWrite101(r)
    \/ \E r \in R : UpgradeWrite101Fails(r)
    \/ \E r \in R : SendOnClosedChannel(r)
    \/ \E r \in R : AddConn_Store(r)
    \/ \E r \in R : AddConn_Publish(r)
    \/ \E r \in R : MessageLoop_Configure(r)
    \/ \E r \in R :
          \E e \in {ErrClientClosed, ErrSizeLimit, ErrUseOfClosed} :
             ReadMessageFails(r, e)
    \/ \E r \in R : WorkerRemoveConn(r)
    \/ \E t \in AppThreads, x \in ConnIDs \cup {BogusID} : CloseConnByConnID(t, x)
    \/ \E t \in R \cup AppThreads : RemoveConn_Publish(t)
    \/ \E t \in R \cup AppThreads : RemoveConn_Close(t)
    \/ \E r \in R : WorkerClose(r)
    \/ \E r \in R : DeferredCloseChannel(r)
    \/ \E r \in R : DeferredDecrement(r)

Next == ServerNext(Requests, SomeHeaders)

Spec == Init /\ [][Next]_vars

\* The server of Spec with a Stop at any moment.
NextStop ==
    \/ ServerNext(Requests, SomeHeaders)
    \/ Server_Stop

SpecStop == Init /\ [][NextStop]_vars

\* ------------------------------------------------------------------ SpecUpgrade

\* One request, with every combination of the handshake headers, against a
\* server configured with the wildcard origin or with one allowed origin.
InitUpgrade ==
    /\ InitServer
    /\ cfgOrigin \in {"*", AllowedOrigin}
    /\ InitOnce
    /\ InitWrite
    /\ InitUser

NextUpgrade == ServerNext({1}, Headers)

SpecUpgrade == InitUpgrade /\ [][NextUpgrade]_vars

\* ------------------------------------------------------------------ Conn.writeFrame

\* The connection whose writers SpecWrite follows.
TheConn == NewConnID(1)

\* The frames each goroutine writes on the connection:
\*   worker     the connection's own worker: a handler's reply through
\*              WriteMessage (server.go 346-348, context.go 126), and the pong
\*              ReadMessage writes for a ping, with the ping's payload (327);
\*   broadcast  an application goroutine in Broadcast, Multicast or
\*              SendToConnID (connManager.go 118-146): WriteMessage;
\*   closer     a goroutine in RemoveConn: Conn.Close (358-361), the close
\*              frame and then conn.Close().
FramesOf(w) ==
    CASE w = "worker"    -> {[opCode |-> "text", payloadLen |-> 1],
                             [opCode |-> "pong", payloadLen |-> 0],
                             [opCode |-> "pong", payloadLen |-> 1]}
      [] w = "broadcast" -> {[opCode |-> "text", payloadLen |-> 1]}
      [] w = "closer"    -> {[opCode |-> "close", payloadLen |-> 1]}

Chunk(w, n, part, f) ==
    [writer |-> w, frame |-> n, part |-> part, opCode |-> f.opCode,
     payloadLen |-> f.payloadLen]

\* server.go lines 432-477: writeFrame builds the header and hands it to
\* conn.Write; a failed write (the transport is closed) returns the error.
\* No lock is taken: the writer holds nothing between this Write and the next.
writeFrame_Header(w, f) ==
    /\ wpc[w] = "idle"
    /\ wcount[w] < MaxWrites
    /\ f \in FramesOf(w)
    /\ wcount' = [wcount EXCEPT ![w] = @ + 1]
    /\ IF closed[TheConn]
       THEN UNCHANGED <<wire, wpc, wframe>>
       ELSE /\ wire' = Append(wire, Chunk(w, wcount'[w], "header", f))
            /\ IF f.payloadLen > 0
               THEN /\ wpc' = [wpc EXCEPT ![w] = "payload"]
                    /\ wframe' = [wframe EXCEPT ![w] = f]
               ELSE UNCHANGED <<wpc, wframe>>
    /\ UNCHANGED <<serverVars, upgradeVars, fault, registryVars, connVars,
                   onceVars, userVars, goroutines>>

\* server.go lines 478-481: the second conn.Write, of the payload.  When the
\* frame was a close frame written by Close, conn.Close() follows (line 360).
writeFrame_Payload(w) ==
    /\ wpc[w] = "payload"
    /\ wire' = IF closed[TheConn] THEN wire
               ELSE Append(wire, Chunk(w, wcount[w], "payload", wframe[w]))
    /\ wpc' = [wpc EXCEPT ![w] = IF w = "closer" THEN "close" ELSE "idle"]
    /\ wframe' = [wframe EXCEPT ![w] = NoFrame]
    /\ UNCHANGED <<wcount, serverVars, upgradeVars, fault, registryVars,
                   connVars, onceVars, userVars, goroutines>>

\* server.go line 360: c.conn.Close() at the end of Conn.Close.
Close_Transport(w) ==
    /\ wpc[w] = "close"
    /\ closed' = [closed EXCEPT ![TheConn] = TRUE]
    /\ wpc' = [wpc EXCEPT ![w] = "idle"]
    /\ UNCHANGED <<wire, wframe, wcount, serverVars, upgradeVars, fault,
                   registryVars, closeFrames, onceVars, userVars, goroutines>>

NextWrite ==
    \/ \E w \in Writers : \E f \in FramesOf(w) : writeFrame_Header(w, f)
    \/ \E w \in Writers : writeFrame_Payload(w)
    \/ \E w \in Writers : Close_Transport(w)

SpecWrite == Init /\ [][NextWrite]_vars

\* ------------------------------------------------------------------ Server.Use / Server.Register

SeqsUpTo(S, n) == UNION {[1 .. k -> S] : k \in 0 .. n}

\* The routes are set up before the first message is dispatched.
NothingServed == \A r \in Requests : served[r] = <<>> /\ msg[r] = NoMessage

\* server.go lines 88-92: s.middlewares = append(s.middlewares, m).
Use(m) ==
    /\ NothingServed
    /\ Len(middlewares) < MaxMiddlewares
    /\ middlewares' = Append(middlewares, m)
    /\ UNCHANGED <<dataVars, handlers, routes, loopVars, fanout, busVars, goroutines,
                   serverVars, upgradeVars, fault, registryVars, connVars,
                   onceVars, writeVars>>

\* server.go lines 95-100 and router.go lines 28-30: the chain is the global
\* middlewares followed by those of the call; the handler table takes the
\* HandlerFunc buildChain composes from it.
Register(action, handler, ms) ==
    /\ NothingServed
    /\ LET chain == middlewares \o ms
       IN  handlers' = [handlers EXCEPT ![action] = buildChain(chain, handler)]
    /\ routes' = [routes EXCEPT
                    ![action] = [registered |-> TRUE, global |-> middlewares,
                                 route |-> ms]]
    /\ UNCHANGED <<dataVars, middlewares, loopVars, fanout, busVars, goroutines,
                   serverVars, upgradeVars, fault, registryVars, connVars,
                   onceVars, writeVars>>

\* router.go lines 33-46: Dispatch called with a context of connection r.
Router_Dispatch(r, ctx) ==
    /\ Len(served[r]) < MaxMessages
    /\ LET d == Dispatch(handlers, ctx)
       IN  served' = [served EXCEPT
                        ![r] = Append(@, [raw |-> NoMessage, ctx |-> ctx,
                                          parseErr |-> Nil, dispatched |-> TRUE,
                                          err |-> d.err,
                                          writes |-> Written(d.writes, NewConnID(r)),
                                          trace |-> d.trace])]
    /\ UNCHANGED <<dataVars, routerVars, msg, fanout, busVars, goroutines,
                   serverVars, upgradeVars, fault, registryVars, connVars,
                   onceVars, writeVars>>

NextRouter ==
    \/ \E m \in Middlewares : Use(m)
    \/ \E a \in Routes, ms \in SeqsUpTo(Middlewares, MaxMiddlewares) :
          Register(a, Controller, ms)
    \/ \E ctx \in [action : Actions, data : Data] : Router_Dispatch(1, ctx)

SpecRouter == Init /\ [][NextRouter]_vars

\* ------------------------------------------------------------------ Server.messageLoop, messages

\* server.go lines 222-223: ReadMessage returns a message.
ReadMessage(r, raw) ==
    /\ fault = "none"
    /\ pc[r] = "read"
    /\ ~closed[target[r]]
    /\ Len(served[r]) < MaxMessages
    /\ msg' = [msg EXCEPT ![r] = raw]
    /\ pc' = [pc EXCEPT ![r] = "handle"]
    /\ UNCHANGED <<dataVars, connectionCount, currentConn, hdr, httpError, handshakeDone,
                   upgradeVars, fault, registryVars, connVars, onceVars,
                   writeVars, routerVars, served, fanout, busVars, goroutines>>

\* Where the loop goes after a message with outcome e: `continue` after a
\* parse error, the end of the body after Dispatch, whatever it returned.
LoopAfterBreakingOnError(e) ==
    IF e.parseErr # Nil \/ e.err # Nil THEN "remove" ELSE "read"

LoopAfter(e) == "read"

\* server.go lines 230-243: the rest of the iteration, back to ReadMessage.
HandleMessage(r) ==
    /\ fault = "none"
    /\ pc[r] = "handle"
    /\ LET e == HandleRaw(handlers, msg[r])
       IN  served' = [served EXCEPT
                        ![r] = Append(@, [e EXCEPT
                                            !.writes = Written(e.writes, target[r])])]
    /\ msg' = [msg EXCEPT ![r] = NoMessage]
    /\ pc' = [pc EXCEPT ![r] = LoopAfter(HandleRaw(handlers, msg[r]))]
    /\ UNCHANGED <<dataVars, connectionCount, currentConn, hdr, httpError, handshakeDone,
                   upgradeVars, fault, registryVars, connVars, onceVars,
                   writeVars, routerVars, fanout, busVars, goroutines>>

\* The server of SpecLoop: "echo" registered after Use(auth).
LoopMiddlewares == <<"auth">>

InitLoop ==
    /\ InitServer
    /\ cfgOrigin = "*"
    /\ InitOnce
    /\ InitWrite
    /\ middlewares = LoopMiddlewares
    /\ handlers = [a \in Routes |-> buildChain(LoopMiddlewares, Controller)]
    /\ routes = [a \in Routes |->
                    [registered |-> TRUE, global |-> LoopMiddlewares, route |-> <<>>]]
    /\ InitDriven
    /\ InitAttrs
    /\ InitFrames
    /\ codec = NoCodec

NextLoop ==
    \/ ServerNext({1}, SomeHeaders)
    \/ \E raw \in RawMessages : ReadMessage(1, raw)
    \/ HandleMessage(1)

SpecLoop == InitLoop /\ [][NextLoop]_vars

\* ------------------------------------------------------------------ ConnManager.Broadcast / Multicast

\* connManager.go lines 118-124, called by an application goroutine; failing
\* are the registered connections whose transport refuses the write.  The
\* runs follow one fan-out call, made at any moment of the connections' lives
\* (a call leaves nothing behind that a later call reads).
ConnManager_Broadcast(failing) ==
    /\ fanout.call = "none"
    /\ failing \subseteq connMap
    /\ LET b == Broadcast(connMap, failing)
       IN  fanout' = [call |-> "Broadcast", ids |-> <<>>, registry |-> connMap,
                      failing |-> failing, attempts |-> b.attempts,
                      warned |-> b.warned]
    /\ UNCHANGED <<dataVars, serverVars, upgradeVars, fault, registryVars, connVars,
                   onceVars, writeVars, routerVars, loopVars, busVars,
                   goroutines>>

\* connManager.go lines 127-136.
ConnManager_Multicast(ids, failing) ==
    /\ fanout.call = "none"
    /\ failing \subseteq connMap
    /\ LET m == Multicast(connMap, ids, failing)
       IN  fanout' = [call |-> "Multicast", ids |-> ids, registry |-> connMap,
                      failing |-> failing, attempts |-> m.attempts,
                      warned |-> m.warned]
    /\ UNCHANGED <<dataVars, serverVars, upgradeVars, fault, registryVars, connVars,
                   onceVars, writeVars, routerVars, loopVars, busVars,
                   goroutines>>

\* A server whose MaxConnections admits every request, each past its
\* handshake: handleRequest is about to call AddConn (server.go line 194).
InitServing ==
    /\ pc = [t \in Threads |-> IF t \in Requests THEN "addconn_store" ELSE "idle"]
    /\ connectionCount = NumRequests
    /\ currentConn = [r \in Requests |-> r]
    /\ hdr = [r \in Requests |-> ValidRequest]
    /\ httpError = [r \in Requests |-> ""]
    /\ handshakeDone = [r \in Requests |-> "open"]
    /\ upc = [r \in Requests |-> "exited"]
    /\ err = [r \in Requests |-> Nil]
    /\ hijacked = [r \in Requests |-> TRUE]
    /\ wrote101 = [r \in Requests |-> TRUE]
    /\ fault = "none"
    /\ connMap = {}
    /\ published = [x \in ConnIDs |-> <<>>]
    /\ target = [t \in Threads |-> BogusID]
    /\ reason = [t \in Threads |-> ""]
    /\ closeFrames = [x \in ConnIDs |-> 0]
    /\ closed = [x \in ConnIDs |-> FALSE]
    /\ removeCalls = [x \in ConnIDs |-> 0]
    /\ removedReason = [x \in ConnIDs |-> ""]
    /\ cfgOrigin = "*"
    /\ inShutdown = FALSE
    /\ accept = [r \in Requests |-> serverKey[ValidRequest.key]]
    /\ connCfg = [x \in ConnIDs |-> NewConn]
    /\ InitWrite
    /\ InitUser

\* The workers register, serve and remove their connections while an
\* application goroutine fans messages out.
NextFanout ==
    \/ \E r \in Requests : AddConn_Store(r)
    \/ \E r \in Requests : AddConn_Publish(r)
    \/ \E r \in Requests : MessageLoop_Configure(r)
    \/ \E r \in Requests : ReadMessageFails(r, ErrClientClosed)
    \/ \E r \in Requests : WorkerRemoveConn(r)
    \/ \E r \in Requests : RemoveConn_Publish(r)
    \/ \E failing \in SUBSET ConnIDs : ConnManager_Broadcast(failing)
    \/ \E ids \in IDLists, failing \in SUBSET ConnIDs :
          ConnManager_Multicast(ids, failing)

SpecFanout == InitServing /\ [][NextFanout]_vars

\* ------------------------------------------------------------------ ConnEventBus

\* connManager.go lines 207-212: a nil listener is ignored.
Subscribe(listenerID, listener) ==
    /\ fault = "none"
    /\ listeners' = IF listener = NoListener THEN listeners
                    ELSE Store(listeners, listenerID, listener)
    /\ lastSubscribe' = IF listener = NoListener THEN lastSubscribe
                        ELSE [lastSubscribe EXCEPT ![listenerID] = listener]
    /\ UNCHANGED <<dataVars, serverVars, upgradeVars, fault, registryVars, connVars,
                   onceVars, writeVars, routerVars, loopVars, fanout, goroutines>>

\* connManager.go lines 215-217.
Unsubscribe(listenerID) ==
    /\ fault = "none"
    /\ listeners' = Delete(listeners, listenerID)
    /\ lastSubscribe' = [lastSubscribe EXCEPT ![listenerID] = NoListener]
    /\ UNCHANGED <<dataVars, serverVars, upgradeVars, fault, registryVars, connVars,
                   onceVars, writeVars, routerVars, loopVars, fanout, goroutines>>

\* The goroutines one connection's two events can start.
GoroutineIDs == 1 .. 2 * Cardinality(ListenerIDs)

\* connManager.go line 225: the goroutine of `go listener.OnConnEvent(event)`
\* runs the callback, which returns or, for a listener that blocks, does not.
\* Nothing on the goroutine's stack recovers, so a callback that panics ends
\* the process: no goroutine of the program takes another step.
OnConnEvent(k) ==
    /\ fault = "none"
    /\ k <= Len(goroutines)
    /\ goroutines[k].at = "started"
    /\ goroutines' = [goroutines EXCEPT
                         ![k].at = IF Recovered(goroutines[k].listener)
                                   THEN IF Returns(goroutines[k].listener)
                                        THEN "returned" ELSE "running"
                                   ELSE "panicked"]
    /\ fault' = IF Recovered(goroutines[k].listener)
                THEN fault ELSE "panic in OnConnEvent"
    /\ UNCHANGED <<serverVars, upgradeVars, registryVars, connVars,
                   onceVars, writeVars, userVars>>

\* The life of one connection from AddConn on, with application goroutines
\* subscribing the listeners of L and unsubscribing, and the goroutines of
\* Publish running.
BusNext(L) ==
    \/ \E i \in ListenerIDs, l \in L \cup {NoListener} : Subscribe(i, l)
    \/ \E i \in ListenerIDs : Unsubscribe(i)
    \/ \E k \in GoroutineIDs : OnConnEvent(k)
    \/ AddConn_Store(1)
    \/ AddConn_Publish(1)
    \/ MessageLoop_Configure(1)
    \/ ReadMessageFails(1, ErrClientClosed)
    \/ WorkerRemoveConn(1)
    \/ RemoveConn_Publish(1)
    \/ RemoveConn_Close(1)
    \/ WorkerClose(1)

NextBus == BusNext(Listeners)

SpecBus == InitServing /\ [][NextBus]_vars

\* The scheduler runs every goroutine that can take a step: the worker inside
\* AddConn and RemoveConn, and the goroutines Publish started.
FairSpecBus ==
    /\ SpecBus
    /\ WF_vars(AddConn_Publish(1))
    /\ WF_vars(MessageLoop_Configure(1))
    /\ WF_vars(RemoveConn_Publish(1))
    /\ WF_vars(RemoveConn_Close(1))
    /\ \A k \in GoroutineIDs : WF_vars(OnConnEvent(k))

\* ------------------------------------------------------------------ SpecKick

\* Two connections past their handshake, and an application goroutine that
\* closes them by ID at any moment of their life.
NextKick ==
    \/ \E r \in {1, 2} : AddConn_Store(r)
    \/ \E r \in {1, 2} : AddConn_Publish(r)
    \/ \E r \in {1, 2} : MessageLoop_Configure(r)
    \/ \E r \in {1, 2} :
          \E e \in {ErrClientClosed, ErrSizeLimit, ErrUseOfClosed} :
             ReadMessageFails(r, e)
    \/ \E r \in {1, 2} : WorkerRemoveConn(r)
    \/ \E t \in AppThreads, x \in ConnIDs : CloseConnByConnID(t, x)
    \/ \E t \in Threads : RemoveConn_Publish(t)
    \/ \E t \in Threads : RemoveConn_Close(t)
    \/ \E r \in {1, 2} : WorkerClose(r)
    \/ \E r \in {1, 2} : DeferredCloseChannel(r)
    \/ \E r \in {1, 2} : DeferredDecrement(r)

SpecKick == InitServing /\ [][NextKick]_vars

\* The scheduler runs every goroutine that can take a step: the application
\* goroutine inside RemoveConn, and the worker once its read has returned.  A
\* read of a closed transport returns; a read of an open one may block for
\* ever, so only the former is fair.
FairSpecKick ==
    /\ SpecKick
    /\ \A t \in Threads : WF_vars(RemoveConn_Publish(t))
    /\ \A t \in Threads : WF_vars(RemoveConn_Close(t))
    /\ \A r \in Requests :
          /\ WF_vars(ReadMessageFails(r, ErrUseOfClosed))
          /\ WF_vars(WorkerRemoveConn(r))
          /\ WF_vars(WorkerClose(r))
          /\ WF_vars(DeferredCloseChannel(r))
          /\ WF_vars(DeferredDecrement(r))

\* ------------------------------------------------------------------ Conn.writeFrame / Conn.readFrame, the bytes

\* server.go lines 432-482: the server writes one frame on a fresh transport.
Conn_writeFrame(fin, opCode, payload, maxMsgSize) ==
    /\ fault = "none"
    /\ codec.stage = "idle"
    /\ codec' = [NoCodec EXCEPT !.stage = "written", !.fin = fin, !.opCode = opCode,
                                !.payload = payload, !.maxMsgSize = maxMsgSize,
                                !.bytes = writeFrame(fin, opCode, payload)]
    /\ UNCHANGED <<serverVars, upgradeVars, fault, registryVars, connVars, onceVars,
                   writeVars, routerVars, loopVars, fanout, busVars, attrVars,
                   frameVars, goroutines>>

\* A client writes one masked frame on a fresh transport.
Client_writeFrame(fin, opCode, payload, mask, maxMsgSize) ==
    /\ fault = "none"
    /\ codec.stage = "idle"
    /\ codec' = [NoCodec EXCEPT !.stage = "written", !.fin = fin, !.opCode = opCode,
                                !.payload = payload, !.maxMsgSize = maxMsgSize,
                                !.masked = TRUE,
                                !.bytes = ClientFrame(fin, opCode, payload, mask)]
    /\ UNCHANGED <<serverVars, upgradeVars, fault, registryVars, connVars, onceVars,
                   writeVars, routerVars, loopVars, fanout, busVars, attrVars,
                   frameVars, goroutines>>

\* server.go lines 370-430: a Conn whose maxMsgSize is the configured one
\* reads the frame from the transport.
Conn_readFrame ==
    /\ fault = "none"
    /\ codec.stage = "written"
    /\ codec' = [codec EXCEPT !.stage = "read",
                              !.frame = readFrame(codec.bytes, codec.maxMsgSize)]
    /\ UNCHANGED <<serverVars, upgradeVars, fault, registryVars, connVars, onceVars,
                   writeVars, routerVars, loopVars, fanout, busVars, attrVars,
                   frameVars, goroutines>>

\* One frame of every kind, written by the server or by a client and read
\* back under the small and the default size limit.
NextCodec ==
    \/ \E fin \in BOOLEAN, opCode \in OpCodes, n \in PayloadLens, seed \in Seeds,
          maxMsgSize \in {MaxMessageSize, DefaultMaxMessageSize} :
          Conn_writeFrame(fin, opCode, PayloadOf(n, seed), maxMsgSize)
    \/ \E fin \in BOOLEAN, opCode \in OpCodes, n \in PayloadLens, seed \in Seeds,
          mask \in Masks, maxMsgSize \in {MaxMessageSize, DefaultMaxMessageSize} :
          /\ n < 65535
          /\ Client_writeFrame(fin, opCode, PayloadOf(n, seed), mask, maxMsgSize)
    \/ Conn_readFrame

SpecCodec == Init /\ [][NextCodec]_vars

\* ------------------------------------------------------------------ Conn.ReadMessage, the frames

\* The client of the connection of request r writes its frames, at most
\* MaxMessageSize + 1 of them, all before the worker's first read (the
\* transport buffers them).
Client_Sends(r) ==
    /\ fault = "none"
    /\ pc[r] = "addconn_store"
    /\ stream[NewConnID(r)] = NoStream
    /\ \E frames \in SeqsUpTo(ClientFrames, MaxMessageSize + 1) :
          /\ frames # <<>>
          /\ stream' = [stream EXCEPT ![NewConnID(r)] =
                            [frames |-> frames, taken |-> 0,
                             unread |-> BytesOf(frames)]]
    /\ UNCHANGED <<serverVars, upgradeVars, fault, registryVars, connVars, onceVars,
                   writeVars, routerVars, loopVars, fanout, busVars, attrVars,
                   message, delivered, sent, codec, goroutines>>

\* server.go lines 316-343, one turn of ReadMessage's loop, with lines
\* 222-227 of messageLoop when ReadMessage returns: readFrame; an error ends
\* the call; close ends it with "client closed connection"; ping is answered
\* with a pong of the same payload and pong is dropped, the loop going on;
\* any other frame is data: when it would take the message over maxMsgSize a
\* 1009 close frame is written and the call ends with an error, otherwise the
\* payload is appended and, on fin, the message returned.  An error makes the
\* worker break with the error text as closeReason; a message is handled
\* (SpecLoop) and the worker calls ReadMessage again.  When the client's
\* frames are used up the transport is at its end and readFrame fails.
ReadMessage_readFrame(r) ==
    LET x == target[r]
        f == readFrame(stream[x].unread, MaxMessageSize)
        control == f.opCode \in {opCodeClose, opCodePing, opCodePong}
        over == Len(message[x]) + Len(f.payload) > MaxMessageSize
        failure == IF f.err # "" THEN f.err
                   ELSE IF f.opCode = opCodeClose THEN ErrClientClosed
                   ELSE IF ~control /\ over THEN ErrSizeLimit
                   ELSE ""
        gathered == append(message[x], f.payload)
    IN  /\ fault = "none"
        /\ pc[r] = "read"
        /\ ~closed[x]
        /\ stream' = [stream EXCEPT
                          ![x].taken = @ + 1,
                          ![x].unread = SubSeq(@, f.read + 1, Len(@))]
        /\ sent' = [sent EXCEPT ![x] =
                        IF f.err # "" THEN @
                        ELSE IF f.opCode = opCodePing THEN Append(@, PongFrame(f.payload))
                        ELSE IF failure = ErrSizeLimit
                        THEN Append(@, CloseFrame(1009, ErrSizeLimit))
                        ELSE @]
        /\ closeFrames' = [closeFrames EXCEPT
                              ![x] = IF failure = ErrSizeLimit THEN @ + 1 ELSE @]
        /\ message' = [message EXCEPT
                           ![x] = IF failure # "" \/ control THEN @
                                  ELSE IF f.fin THEN <<>> ELSE gathered]
        /\ delivered' = [delivered EXCEPT
                             ![x] = IF failure = "" /\ ~control /\ f.fin
                                    THEN Append(@, [message |-> gathered,
                                                    taken |-> stream[x].taken + 1])
                                    ELSE @]
        /\ reason' = [reason EXCEPT ![r] = IF failure # "" THEN failure ELSE @]
        /\ pc' = [pc EXCEPT ![r] = IF failure # "" THEN AfterReadError ELSE @]
        /\ UNCHANGED <<connectionCount, currentConn, hdr, httpError, handshakeDone,
                       upgradeVars, fault, connMap, published, target, removeCalls,
                       removedReason, closed, onceVars, writeVars, routerVars,
                       loopVars, fanout, busVars, attrVars, codec, goroutines>>

\* The life of one connection and its client.
NextRead ==
    \/ Client_Sends(1)
    \/ AddConn_Store(1)
    \/ AddConn_Publish(1)
    \/ MessageLoop_Configure(1)
    \/ ReadMessage_readFrame(1)
    \/ WorkerRemoveConn(1)
    \/ RemoveConn_Publish(1)
    \/ RemoveConn_Close(1)
    \/ WorkerClose(1)

SpecRead == InitServing /\ [][NextRead]_vars

\* ------------------------------------------------------------------ SpecWire

\* A frame as any client can put it on the wire: the three reserved bits
\* (rsv, RSV1 = 4, RSV2 = 2, RSV3 = 1), any of the 16 opcodes, the length
\* `declared` in the 7-bit, 16-bit or 64-bit form, minimal or not, the mask
\* and the masked payload.
WireFrame(f) ==
    <<(IF f.fin THEN 128 ELSE 0) + 16 * f.rsv + f.opCode,
      128 + (IF f.form = 7 THEN f.declared ELSE IF f.form = 16 THEN 126 ELSE 127)>>
    \o (IF f.form = 7 THEN <<>>
        ELSE BigEndian(f.declared, IF f.form = 16 THEN 2 ELSE 8))
    \o ClientMask
    \o [i \in 1 .. Len(f.payload) |->
           Xor(f.payload[i], ClientMask[((i - 1) % 4) + 1])]

\* The length forms and their header bytes after the first two.
LengthForms == {7, 16, 64}

ExtLen(form) == IF form = 7 THEN 0 ELSE IF form = 16 THEN 2 ELSE 8

\* Text frames of one byte, final or not, with each reserved bit; one-byte
\* final frames of the defined and of undefined opcodes; frames of exactly
\* the size limit in the three length forms; and headers that declare more
\* than the size limit in the three forms, sent without their payload.
WireFrames ==
    [fin : BOOLEAN, rsv : {0, 1, 2, 4}, opCode : {opCodeText}, form : {7},
     declared : {1}, payload : {PayloadOf(1, 0)}]
    \cup [fin : {TRUE}, rsv : {0},
          opCode : {opCodeContinuation, opCodeBinary, 3, 7, 11, 15, opCodePing,
                    opCodeClose},
          form : {7}, declared : {1}, payload : {PayloadOf(1, 0)}]
    \cup [fin : {TRUE}, rsv : {0}, opCode : {opCodeText}, form : LengthForms,
          declared : {MaxMessageSize}, payload : {PayloadOf(MaxMessageSize, 0)}]
    \cup [fin : {TRUE}, rsv : {0}, opCode : {opCodeText}, form : LengthForms,
          declared : {MaxMessageSize + 1}, payload : {<<>>}]
    \cup [fin : {TRUE}, rsv : {0}, opCode : {opCodeText}, form : {16},
          declared : {65535}, payload : {<<>>}]
    \cup [fin : {TRUE}, rsv : {0}, opCode : {opCodeText}, form : {64},
          declared : {65536}, payload : {<<>>}]

\* Frames one client sends in SpecWire.
MaxWireFrames == 2

RECURSIVE WireBytesOf(_)
WireBytesOf(frames) ==
    IF frames = <<>> THEN <<>>
    ELSE WireFrame(Head(frames)) \o WireBytesOf(Tail(frames))

\* The client of the connection of request r writes its frames before the
\* worker's first read.
Client_SendsWire(r) ==
    /\ fault = "none"
    /\ pc[r] = "addconn_store"
    /\ stream[NewConnID(r)] = NoStream
    /\ \E frames \in SeqsUpTo(WireFrames, MaxWireFrames) :
          /\ frames # <<>>
          /\ stream' = [stream EXCEPT ![NewConnID(r)] =
                            [frames |-> frames, taken |-> 0,
                             unread |-> WireBytesOf(frames)]]
    /\ UNCHANGED <<serverVars, upgradeVars, fault, registryVars, connVars, onceVars,
                   writeVars, routerVars, loopVars, fanout, busVars, attrVars,
                   message, delivered, sent, codec, goroutines>>

\* The life of one connection whose client sends any frames.
NextWire ==
    \/ Client_SendsWire(1)
    \/ AddConn_Store(1)
    \/ AddConn_Publish(1)
    \/ MessageLoop_Configure(1)
    \/ ReadMessage_readFrame(1)
    \/ WorkerRemoveConn(1)
    \/ RemoveConn_Publish(1)
    \/ RemoveConn_Close(1)
    \/ WorkerClose(1)

SpecWire == InitServing /\ [][NextWire]_vars

\* ------------------------------------------------------------------ ConnManager.SetConnAttr / GetConnAttr

\* connManager.go lines 149-154 with the record looked up or not: the store
\* into ConnInfo.attrs happens whether or not connMap still holds the ID.
SetConnAttrOnAnyRecord(connID, key, value) ==
    /\ fault = "none"
    /\ EventsOf(EventConnOnline, connID) # {}
    /\ attrs' = [attrs EXCEPT ![connID][key] = value]
    /\ attrCalls' = [attrCalls EXCEPT !.latest[connID][key] = value]
    /\ UNCHANGED <<serverVars, upgradeVars, fault, registryVars, connVars, onceVars,
                   writeVars, routerVars, loopVars, fanout, busVars, frameVars,
                   codec, goroutines>>

\* connManager.go lines 149-154: Load the record of connID from connMap and,
\* when it exists, Store the value under the key in its attrs; otherwise do
\* nothing.  The application names an ID it has learnt (as CloseConnByConnID).
SetConnAttr(connID, key, value) ==
    /\ fault = "none"
    /\ EventsOf(EventConnOnline, connID) # {}
    /\ attrs' = IF connID \in connMap
                THEN [attrs EXCEPT ![connID][key] = value]
                ELSE attrs
    /\ attrCalls' = [attrCalls EXCEPT !.latest[connID][key] = value]
    /\ UNCHANGED <<serverVars, upgradeVars, fault, registryVars, connVars, onceVars,
                   writeVars, routerVars, loopVars, fanout, busVars, frameVars,
                   codec, goroutines>>

\* connManager.go lines 157-163: Load the record of connID from connMap; when
\* it exists return attrs.Load(key), otherwise (nil, false).
GetConnAttr(connID, key) ==
    /\ fault = "none"
    /\ EventsOf(EventConnOnline, connID) # {}
    /\ attrCalls' = [attrCalls EXCEPT !.got =
                        IF connID \in connMap
                        THEN [connID |-> connID, key |-> key,
                              value |-> attrs[connID][key],
                              found |-> attrs[connID][key] # "nil"]
                        ELSE [connID |-> connID, key |-> key,
                              value |-> "nil", found |-> FALSE]]
    /\ UNCHANGED <<serverVars, upgradeVars, fault, registryVars, connVars, onceVars,
                   writeVars, routerVars, loopVars, fanout, busVars, attrs,
                   frameVars, codec, goroutines>>

\* Connection 1 comes and goes and connection 2 comes and stays, while
\* application goroutines set and get attributes of both.
NextAttr ==
    \/ \E r \in {1, 2} : AddConn_Store(r)
    \/ \E r \in {1, 2} : AddConn_Publish(r)
    \/ \E r \in {1, 2} : MessageLoop_Configure(r)
    \/ ReadMessageFails(1, ErrClientClosed)
    \/ WorkerRemoveConn(1)
    \/ RemoveConn_Publish(1)
    \/ RemoveConn_Close(1)
    \/ \E x \in {1, 2}, k \in AttrKeys, v \in AttrValues : SetConnAttr(x, k, v)
    \/ \E x \in {1, 2}, k \in AttrKeys : GetConnAttr(x, k)

SpecAttr == InitServing /\ [][NextAttr]_vars

\* The same life with a listener among the subscribers whose callback panics.
NextPanic == BusNext(Listeners \cup {"Lpanic"})

SpecPanic == InitServing /\ [][NextPanic]_vars

\* ================================================================== claims

\* The connection of request r went through AddConn (its online event is out).
Registered(x) == EventsOf(EventConnOnline, x) # {}

\* A RemoveConn call found and deleted the record of x.
Removed(x) == removedReason[x] # ""

TimedOut(r) == httpError[r] = "handshake timeout"

Rejected(r) == httpError[r] = "too many connections"

\* handleRequest is executing for r (entered, not yet returned).
InProgress(r) == pc[r] \notin {"idle", "done"}

\* ------------------------------------------------------------------ C1
\* C1: the bytes of each frame reach the transport contiguously: on the wire,
\* the header chunk of a frame with a payload is directly followed by the
\* payload chunk of the same frame, never by a chunk of another writer.
C1_FramesContiguous ==
    \A i \in 1 .. Len(wire) - 1 :
        (wire[i].part = "header" /\ wire[i].payloadLen > 0)
            => /\ wire[i + 1].writer = wire[i].writer
               /\ wire[i + 1].frame = wire[i].frame
               /\ wire[i + 1].part = "payload"

\* ------------------------------------------------------------------ C2
C2_Lookup ==
    \A x \in ConnIDs :
        /\ (Registered(x) /\ removeCalls[x] = 0) => GetConnByConnID(x)
        /\ removeCalls[x] >= 1 => ~GetConnByConnID(x)

\* A step that is a RemoveConn(x, _) call made after an earlier one.
C2_LaterRemoveCall(x) ==
    /\ removeCalls[x] >= 1
    /\ \/ removeCalls'[x] # removeCalls[x]
       \/ \E r \in Requests :
             NewConnID(r) = x /\ pc[r] = "remove" /\ pc'[r] # "remove"

\* C2: from the return of AddConn with ID X until the first RemoveConn(X, _),
\* GetConnByConnID(X) succeeds; from the first RemoveConn(X, _) on it fails;
\* a later RemoveConn(X, _) changes neither the registry nor the events nor
\* the transport, and raises no fault.
C2_RegistryInvariant ==
    [][/\ C2_Lookup'
       /\ \A x \in ConnIDs :
             C2_LaterRemoveCall(x)
                 => UNCHANGED <<connMap, published, closed, closeFrames, fault>>]_vars

C2_Witness ==
    \E x \in ConnIDs : Registered(x) /\ removeCalls[x] = 2 /\ ~GetConnByConnID(x)

\* ------------------------------------------------------------------ C3
\* C3: whatever the interleaving of the RemoveConn(X, r) calls, at most one
\* offline event for X is ever published, it carries the reason of the call
\* that removed the record, and once that call is past its Publish there is
\* exactly one.
C3_OneOfflineEvent ==
    \A x \in ConnIDs :
        /\ Cardinality(EventsOf(EventConnOffline, x)) <= 1
        /\ \A i \in EventsOf(EventConnOffline, x) :
              published[x][i].CloseReason = removedReason[x]
        /\ (Removed(x) /\ ~\E t \in Threads : pc[t] = "rm_publish" /\ target[t] = x)
              => Cardinality(EventsOf(EventConnOffline, x)) = 1

\* The application's call removed the record and the worker's was the no-op.
C3_Witness ==
    \E x \in ConnIDs :
        /\ removeCalls[x] = 2
        /\ removedReason[x] = KickReason
        /\ \E r \in Requests : NewConnID(r) = x /\ pc[r] \in {"ret_closech", "ret_decr", "done"}
        /\ Cardinality(EventsOf(EventConnOffline, x)) = 1

\* ------------------------------------------------------------------ C4
\* C4: removal and publication are one indivisible step: in no state is X
\* already removed from the registry with its offline event not yet published,
\* nor is the offline event published with X still in the registry.
C4_RemoveAndPublishTogether ==
    \A x \in ConnIDs :
        /\ Removed(x) => EventsOf(EventConnOffline, x) # {}
        /\ EventsOf(EventConnOffline, x) # {} => x \notin connMap

\* ------------------------------------------------------------------ C5
\* C5: every offline event for X is preceded, in publication order, by the
\* online event for X.
C5_OnlineBeforeOffline ==
    \A x \in ConnIDs :
        \A i \in EventsOf(EventConnOffline, x) :
            \E j \in EventsOf(EventConnOnline, x) : j < i

C5_Witness ==
    \E x \in ConnIDs :
        EventsOf(EventConnOnline, x) # {} /\ EventsOf(EventConnOffline, x) # {}

\* ------------------------------------------------------------------ C6
\* C6: at most MaxConnections invocations of handleRequest are past the
\* admission check at any time; a request is rejected exactly when the counter
\* value it got exceeds MaxConnections, and a rejected request starts no
\* upgrade: no hijack, no 101, no AddConn, no event.
C6_AdmissionControl ==
    /\ Cardinality({r \in Requests : InProgress(r) /\ ~Rejected(r)}) <= MaxConnections
    /\ \A r \in Requests :
          /\ InProgress(r) => (currentConn[r] > MaxConnections <=> Rejected(r))
          /\ Rejected(r) =>
                /\ upc[r] = "none"
                /\ ~hijacked[r]
                /\ ~wrote101[r]
                /\ NewConnID(r) \notin connMap
                /\ published[NewConnID(r)] = <<>>

C6_Witness ==
    \E r1, r2 \in Requests :
        /\ Rejected(r1) /\ pc[r1] = "ret_decr"
        /\ pc[r2] = "read"

\* ------------------------------------------------------------------ C7
\* C7: connectionCount equals the number of handleRequest invocations that
\* are executing, whatever exit path each takes; it is never negative and is
\* 0 when none is executing.
C7_CounterMatchesInProgress ==
    /\ connectionCount = Cardinality({r \in Requests : InProgress(r)})
    /\ connectionCount >= 0
    /\ (\A r \in Requests : ~InProgress(r)) => connectionCount = 0

\* Every request has returned: one was rejected at admission or timed out in
\* the handshake, another ran its message loop to the end.
C7_Witness ==
    /\ \A r \in Requests : pc[r] = "done"
    /\ \E r \in Requests : Rejected(r) \/ TimedOut(r)
    /\ \E r \in Requests : EventsOf(EventConnOffline, NewConnID(r)) # {}

\* ------------------------------------------------------------------ C8
\* C8: a request whose handshake timer fired gets the HTTP error, is never
\* registered, and its transport is never hijacked, neither before the
\* timeout nor by the upgrade step afterwards.
C8_TimeoutLeavesTransport ==
    \A r \in Requests :
        TimedOut(r) =>
            /\ ~hijacked[r]
            /\ ~wrote101[r]
            /\ NewConnID(r) \notin connMap
            /\ published[NewConnID(r)] = <<>>

\* ------------------------------------------------------------------ C9
\* C9: when the timer wins, the upgrade goroutine ends without a fault: it
\* never sends on the handshakeDone channel that handleRequest has closed.
C9_LoserEndsQuietly ==
    \A r \in Requests :
        TimedOut(r) => fault # "send on closed channel"

\* ------------------------------------------------------------------ C10
\* The five checks in the order of the claim, each with its error.
C10_Checks(h, origin) ==
    << <<h.upgrade # "websocket", ErrUpgrade>>,
       <<h.connection \notin {"Upgrade", "upgrade"}, ErrConnection>>,
       <<h.version # "13", ErrVersion>>,
       <<origin # "*" /\ h.origin # "" /\ h.origin # origin, ErrOrigin(h.origin)>>,
       <<h.key = "", ErrKey>> >>

C10_Failing(h, origin) == {i \in 1 .. 5 : C10_Checks(h, origin)[i][1]}

C10_First(S) == CHOOSE i \in S : \A j \in S : i <= j

\* C10: once upgrade has evaluated its checks on a request that fails at least
\* one, the error is that of the first failing check in the order Upgrade,
\* Connection, Sec-WebSocket-Version, Origin, Sec-WebSocket-Key, the
\* transport is not hijacked and no 101 response is written.
C10_FirstFailingCheck ==
    \A r \in Requests :
        (upc[r] \notin {"none", "checks"} /\ C10_Failing(hdr[r], cfgOrigin) # {})
            => /\ err[r] = C10_Checks(hdr[r], cfgOrigin)[C10_First(C10_Failing(hdr[r], cfgOrigin))][2]
               /\ ~hijacked[r]
               /\ ~wrote101[r]

\* A request failing the first and the last check has been answered.
C10_Witness ==
    \E r \in Requests :
        /\ Cardinality(C10_Failing(hdr[r], cfgOrigin)) >= 2
        /\ hdr[r].upgrade # "websocket"
        /\ hdr[r].key = ""
        /\ upc[r] = "exited"
        /\ err[r] = ErrUpgrade
        /\ httpError[r] = "handshake failed"

\* ------------------------------------------------------------------ C11
\* The handshake of request r is over and it was upgraded: no error, the
\* transport hijacked and the 101 response written.
Upgraded(r) == upc[r] \in {"send", "exited"} /\ err[r] = Nil /\ wrote101[r]

\* C11: with a configured origin other than "*", only requests whose Origin
\* header equals the configured origin are upgraded: a request with another
\* Origin, or with no Origin header at all, is rejected; with "*" no request
\* is rejected with the origin error.
C11_OriginEnforced ==
    \A r \in Requests :
        /\ (cfgOrigin # "*" /\ Upgraded(r)) => hdr[r].origin = cfgOrigin
        /\ cfgOrigin = "*" => err[r] # ErrOrigin(hdr[r].origin)

\* ------------------------------------------------------------------ C12
\* The spellings of the Upgrade token the runs carry.
C12_UpgradeSpellings == {"Upgrade", "upgrade", "UPGRADE"}

\* C12: once upgrade has evaluated its checks on a request that passes the
\* Upgrade-header check, the connection-header error is returned exactly when
\* the Connection header is not "Upgrade" in some letter case.
C12_ConnectionCaseInsensitive ==
    \A r \in Requests :
        (upc[r] \notin {"none", "checks"} /\ hdr[r].upgrade = "websocket")
            => (err[r] = ErrConnection <=> hdr[r].connection \notin C12_UpgradeSpellings)

\* ------------------------------------------------------------------ C13
\* Every outcome recorded for a Dispatch call.
Dispatches == {<<r, i>> \in Requests \X (1 .. MaxMessages + 1) :
                  i <= Len(served[r]) /\ served[r][i].dispatched}

Outcome(d) == served[d[1]][d[2]]

HasRoute(a) == a \in Routes /\ routes[a].registered

\* How many times the trace enters the function called name.
Entries(trace, name) ==
    Cardinality({k \in 1 .. Len(trace) : trace[k] = <<"enter", name>>})

\* The middlewares in front of the controller of action a, in chain order.
ChainOf(a) == routes[a].global \o routes[a].route

\* C13: a Dispatch for an action with a registered handler runs that handler
\* once, before it returns, and returns nil without writing a response of its
\* own: the composed HandlerFunc is entered first and left last, and the
\* controller inside it runs once when every middleware in front of it calls
\* next, never twice.  For an action with no handler nothing is invoked, one
\* {code, msg, data: null} response is written and an error is returned.
C13_DispatchOnce ==
    \A d \in Dispatches :
        LET e == Outcome(d)
            a == e.ctx.action
        IN  IF HasRoute(a)
            THEN /\ e.err = Nil
                 /\ e.writes = <<>>
                 /\ e.trace # <<>>
                 /\ e.trace[1][1] = "enter"
                 /\ e.trace[Len(e.trace)] = <<"leave", e.trace[1][2]>>
                 /\ Entries(e.trace, Controller.name) <= 1
                 /\ (\A k \in 1 .. Len(ChainOf(a)) : CallsNext(ChainOf(a)[k], e.ctx))
                        => Entries(e.trace, Controller.name) = 1
            ELSE /\ e.err = ErrInvalidAction(a)
                 /\ e.trace = <<>>
                 /\ Len(e.writes) = 1
                 /\ e.writes[1].code = InvalidAction.code
                 /\ e.writes[1].data = "null"

\* One Dispatch of the registered action and one of an unregistered action.
C13_Witness ==
    \E d1, d2 \in Dispatches :
        /\ HasRoute(Outcome(d1).ctx.action)
        /\ Entries(Outcome(d1).trace, Controller.name) = 1
        /\ ~HasRoute(Outcome(d2).ctx.action)
        /\ Outcome(d2).err # Nil

\* ------------------------------------------------------------------ C14
\* Every outcome recorded for a message the worker read.
Handled == {<<r, i>> \in Requests \X (1 .. MaxMessages + 1) :
               i <= Len(served[r]) /\ served[r][i].raw # NoMessage}

C14_NoAction(raw) == ~raw.wellFormed \/ "action" \notin DOMAIN raw.object

\* C14: a message that is malformed JSON, or well-formed JSON without an
\* "action" field, gets a parse error, is answered with the code-400 response
\* and is not passed to Dispatch.
C14_BadMessageRejected ==
    \A d \in Handled :
        LET e == Outcome(d)
        IN  C14_NoAction(e.raw)
                => /\ e.parseErr # Nil
                   /\ Len(e.writes) = 1
                   /\ e.writes[1].code = BadMessage.code
                   /\ ~e.dispatched

\* ------------------------------------------------------------------ C15
\* The worker of r finishes the handling of a message in this step.
C15_Handles(r) == pc[r] = "handle" /\ pc'[r] # "handle"

C15_Last(r) == served'[r][Len(served'[r])]

C15_InLoop(p) == p \in {"read", "handle"}

\* C15: the step that handles a message with a parse error or an unknown
\* action changes nothing of the connection (registry, events, transport,
\* close frames) and leaves the worker at its next ReadMessage; the message
\* loop is left only from ReadMessage, with the read error as close reason.
C15_LoopSurvivesBadMessages ==
    [][\A r \in Requests :
          /\ (C15_Handles(r) /\ (C15_Last(r).parseErr # Nil \/ C15_Last(r).err # Nil))
                => /\ pc'[r] = "read"
                   /\ UNCHANGED <<connMap, published, closed, closeFrames, fault>>
          /\ (C15_InLoop(pc[r]) /\ ~C15_InLoop(pc'[r]))
                => /\ pc[r] = "read"
                   /\ pc'[r] = "remove"
                   /\ reason'[r] \in {ErrClientClosed, ErrSizeLimit, ErrUseOfClosed}]_vars

\* After a parse error and an unknown action the connection is registered,
\* open, without offline event, and the worker is back at ReadMessage.
C15_Witness ==
    \E r \in Requests :
        /\ \E i, j \in 1 .. Len(served[r]) :
              served[r][i].parseErr # Nil /\ served[r][j].err # Nil
        /\ pc[r] = "read"
        /\ GetConnByConnID(NewConnID(r))
        /\ ~closed[NewConnID(r)]
        /\ EventsOf(EventConnOffline, NewConnID(r)) = {}


\* ------------------------------------------------------------------ C16
\* g1..gm, p1..pn and the controller, in the order of the claim.
C16_Order(a) == ChainOf(a) \o <<Controller.name>>

\* The functions a dispatch of ctx enters: those of the order up to and
\* including the first middleware that does not call next.
C16_Reached(a, ctx) ==
    LET order == C16_Order(a)
        stops == {k \in 1 .. Len(order) - 1 : ~CallsNext(order[k], ctx)}
        last  == IF stops = {} THEN Len(order)
                 ELSE CHOOSE k \in stops : \A j \in stops : k <= j
    IN  SubSeq(order, 1, last)

\* Entered in order, left in the reverse order.
C16_InAndOut(names) ==
    [k \in 1 .. 2 * Len(names) |->
        IF k <= Len(names) THEN <<"enter", names[k]>>
        ELSE <<"leave", names[2 * Len(names) + 1 - k]>>]

\* C16: a dispatch of an action registered with the global middlewares
\* g1..gm (those Use had added before the Register call) and the route's
\* p1..pn enters g1, .., gm, p1, .., pn and the controller in this order and
\* leaves them in the reverse order; a middleware that does not call next
\* keeps every later middleware and the controller from running.
C16_ChainOrder ==
    \A d \in Dispatches :
        LET e == Outcome(d)
        IN  HasRoute(e.ctx.action)
                => e.trace = C16_InAndOut(C16_Reached(e.ctx.action, e.ctx))

\* A dispatch through a global and a route middleware that reached the
\* controller, another stopped by a middleware of the same server, and a Use
\* made after the registration.
C16_Witness ==
    \E d1, d2 \in Dispatches :
        /\ HasRoute(Outcome(d1).ctx.action)
        /\ Len(routes[Outcome(d1).ctx.action].global) >= 1
        /\ Len(routes[Outcome(d1).ctx.action].route) >= 1
        /\ Len(middlewares) > Len(routes[Outcome(d1).ctx.action].global)
        /\ \E x, y \in 1 .. Len(ChainOf(Outcome(d1).ctx.action)) :
              ChainOf(Outcome(d1).ctx.action)[x] # ChainOf(Outcome(d1).ctx.action)[y]
        /\ Entries(Outcome(d1).trace, Controller.name) = 1
        /\ HasRoute(Outcome(d2).ctx.action)
        /\ Entries(Outcome(d2).trace, Controller.name) = 0

\* ------------------------------------------------------------------ C17
\* The connections the last fan-out call tried to write to.
Attempted == {fanout.attempts[k].connID : k \in 1 .. Len(fanout.attempts)}

WrittenTo == {fanout.attempts[k].connID :
                 k \in {j \in 1 .. Len(fanout.attempts) : fanout.attempts[j].ok}}

Warned == {fanout.warned[k] : k \in 1 .. Len(fanout.warned)}

ListedIDs == {fanout.ids[k] : k \in 1 .. Len(fanout.ids)}

\* C17: a Multicast writes the message once to every listed connection that
\* is in the registry, wherever the IDs that are not stand in the list,
\* reports each of those IDs once, and attempts nothing else.
C17_MulticastSkipsDeadIDs ==
    fanout.call = "Multicast" =>
        /\ Attempted = ListedIDs \cap fanout.registry
        /\ Len(fanout.attempts) = Cardinality(Attempted)
        /\ WrittenTo = Attempted \ fanout.failing
        /\ Warned = ListedIDs \ fanout.registry
        /\ Len(fanout.warned) = Cardinality(Warned)

\* Two live connections with the dead ID between them in the list.
C17_Witness ==
    /\ fanout.call = "Multicast"
    /\ Len(fanout.ids) = 3
    /\ fanout.ids[2] \notin fanout.registry
    /\ {fanout.ids[1], fanout.ids[3]} \subseteq WrittenTo
    /\ Warned = {fanout.ids[2]}

\* ------------------------------------------------------------------ C18
\* C18: when the write to one registered connection fails in a Broadcast or
\* Multicast, every other target is still written to, and the failure is
\* reported, one report for each connection whose write failed.
C18_WriteFailuresReported ==
    fanout.call \in {"Broadcast", "Multicast"} =>
        /\ WrittenTo = Attempted \ fanout.failing
        /\ \A x \in Attempted \ WrittenTo :
              Cardinality({k \in 1 .. Len(fanout.warned) : fanout.warned[k] = x}) = 1

\* ------------------------------------------------------------------ C19
\* The goroutines the step starts for listener ID i.
C19_StartedFor(i) ==
    {k \in Len(goroutines) + 1 .. Len(goroutines') : goroutines'[k].id = i}

\* C19: one listener per ID.  A step that publishes an event starts, for each
\* ID, one goroutine for the listener of the latest Subscribe call for that
\* ID, with the published event, and none when the latest call was
\* Unsubscribe or there was none; no other step starts a goroutine, and a
\* goroutine keeps its listener and its event.
C19_OneListenerPerID ==
    [][/\ \A k \in 1 .. Len(goroutines) :
             /\ k <= Len(goroutines')
             /\ goroutines'[k].id = goroutines[k].id
             /\ goroutines'[k].listener = goroutines[k].listener
             /\ goroutines'[k].event = goroutines[k].event
       /\ IF published' # published
          THEN \A i \in ListenerIDs :
                  IF lastSubscribe[i] = NoListener
                  THEN C19_StartedFor(i) = {}
                  ELSE /\ Cardinality(C19_StartedFor(i)) = 1
                       /\ \A k \in C19_StartedFor(i) :
                             /\ goroutines'[k].listener = lastSubscribe[i]
                             /\ \E x \in ConnIDs :
                                   /\ published'[x] # published[x]
                                   /\ goroutines'[k].event
                                          = published'[x][Len(published'[x])]
          ELSE Len(goroutines') = Len(goroutines)]_vars

\* Under ID "a" the online event went to one listener and, after a second
\* Subscribe, the offline event to the other; ID "b" got the online event and
\* was unsubscribed before the offline event.
C19_Witness ==
    /\ Len(goroutines) = 3
    /\ \E j, k \in 1 .. 3 :
          /\ goroutines[j].id = "a" /\ goroutines[k].id = "a"
          /\ goroutines[j].event.EventType = EventConnOnline
          /\ goroutines[k].event.EventType = EventConnOffline
          /\ goroutines[j].listener # goroutines[k].listener
          /\ goroutines[k].at # "started"
    /\ \E k \in 1 .. 3 :
          goroutines[k].id = "b" /\ goroutines[k].event.EventType = EventConnOnline
    /\ EventsOf(EventConnOffline, NewConnID(1)) # {}
    /\ lastSubscribe["b"] = NoListener

\* ------------------------------------------------------------------ C20
C20_Waiting(k, l) ==
    k <= Len(goroutines) /\ goroutines[k].listener = l /\ goroutines[k].at = "started"

C20_Received(k) == k <= Len(goroutines) /\ goroutines[k].at = "returned"

C21_PanicIsolated ==
    \A k \in 1 .. Len(goroutines) :
        goroutines[k].at = "panicked" => fault = "none"

\* ------------------------------------------------------------------ C22
\* C22: attributes live and die with the registry record.  A GetConnAttr on a
\* registered connection returns the value of the latest SetConnAttr for that
\* key (not found when none was made); on a connection removed from the
\* registry it reports not found for every key; and a SetConnAttr on a removed
\* connection changes no attribute of any connection.
C22_AttrsFollowRecord ==
    [][/\ attrCalls'.got # attrCalls.got =>
            LET g == attrCalls'.got
                latest == attrCalls.latest[g.connID][g.key]
            IN  IF g.connID \in connMap
                THEN g.value = latest /\ g.found = (latest # "nil")
                ELSE g.value = "nil" /\ ~g.found
       /\ \A x \in ConnIDs :
            (attrCalls'.latest[x] # attrCalls.latest[x] /\ x \notin connMap) =>
                attrs' = attrs]_vars

\* Connection 1 got uid = u1 while registered and was removed; the later
\* SetConnAttr(1, uid, u2) stored nothing and GetConnAttr(1, uid) found
\* nothing, while connection 2 is registered with an attribute of its own.
C22_Witness ==
    /\ removedReason[1] # ""
    /\ attrs[1]["uid"] = "u1"
    /\ attrCalls.latest[1]["uid"] = "u2"
    /\ attrCalls.got = [connID |-> 1, key |-> "uid", value |-> "nil", found |-> FALSE]
    /\ 2 \in connMap
    /\ attrs[2]["uid"] = "u2"

\* ------------------------------------------------------------------ C23
\* C23: for every fin, every opcode of the protocol and every payload no
\* longer than the configured maximum, readFrame on the bytes writeFrame wrote
\* returns the same fin, opcode and payload with no error, having read exactly
\* those bytes; and the mask bit of a frame the server writes is never set.
C23_RoundTrip ==
    /\ (codec.stage = "read" /\ ~codec.masked
            /\ Len(codec.payload) <= codec.maxMsgSize) =>
          /\ codec.frame.err = ""
          /\ codec.frame.fin = codec.fin
          /\ codec.frame.opCode = codec.opCode
          /\ codec.frame.payload = codec.payload
          /\ codec.frame.read = Len(codec.bytes)
    /\ (codec.stage # "idle" /\ ~codec.masked) => (codec.bytes[2] \div 128) % 2 = 0

\* A non-final binary frame whose length takes the 2-byte form was read back.
C23_Witness ==
    /\ codec.stage = "read"
    /\ ~codec.masked
    /\ Len(codec.payload) = 126
    /\ codec.opCode = opCodeBinary
    /\ ~codec.fin
    /\ codec.frame.payload = codec.payload

\* ------------------------------------------------------------------ C24
\* The length field of the frame the server wrote: the bytes between the
\* first byte and the payload.
C24_LengthField ==
    SubSeq(codec.bytes, 2, Len(codec.bytes) - Len(codec.payload))

\* C24: writeFrame encodes a payload length L as the one byte L when L <= 125,
\* as 126 and L in 2 big-endian bytes when 126 <= L <= 65535, and as 127 and L
\* in 8 big-endian bytes when L > 65535.
C24_LengthEncoding ==
    (codec.stage # "idle" /\ ~codec.masked) =>
        LET L == Len(codec.payload)
        IN  IF L <= 125 THEN C24_LengthField = <<L>>
            ELSE IF L <= 65535
            THEN C24_LengthField = <<126, L \div 256, L % 256>>
            ELSE C24_LengthField =
                    <<127, 0, 0, 0, 0, (L \div 16777216) % 256,
                      (L \div 65536) % 256, (L \div 256) % 256, L % 256>>

\* A frame of 126 payload bytes, the first length of the 2-byte form, was written.
C24_Witness ==
    /\ codec.stage = "written"
    /\ ~codec.masked
    /\ Len(codec.payload) = 126
    /\ C24_LengthField = <<126, 0, 126>>

\* ------------------------------------------------------------------ C25
\* C25: readFrame on a masked frame, whose payload byte i was XORed with mask
\* byte (i mod 4), returns the original payload, for every length (0 and
\* lengths that are no multiple of 4 included) within the configured maximum.
C25_Unmasks ==
    (codec.stage = "read" /\ codec.masked
        /\ Len(codec.payload) <= codec.maxMsgSize) =>
      /\ codec.frame.err = ""
      /\ codec.frame.payload = codec.payload
      /\ codec.frame.fin = codec.fin
      /\ codec.frame.opCode = codec.opCode

\* A masked frame of 5 payload bytes, sent under a mask of four different
\* bytes, was read back, and the bytes on the wire were not the payload.
C25_Witness ==
    /\ codec.stage = "read"
    /\ codec.masked
    /\ Len(codec.payload) = 5
    /\ SubSeq(codec.bytes, 3, 6) = <<18, 52, 86, 120>>
    /\ SubSeq(codec.bytes, 7, 11) # codec.payload
    /\ codec.frame.payload = codec.payload

\* ------------------------------------------------------------------ C26
\* The frames the client of connection 1 sent, and how many the worker read.
ClientSent == stream[1].frames

Taken == stream[1].taken

IsData(f) == f.opCode \notin {opCodeClose, opCodePing, opCodePong}

\* The payloads of the frames, one after the other.
RECURSIVE Concat(_)
Concat(frames) ==
    IF frames = <<>> THEN <<>> ELSE Head(frames).payload \o Concat(Tail(frames))

\* The first n frames sent are the fragments of one message: data frames of
\* which the last, and only the last, has fin.
C26_Fragments(n) ==
    /\ n <= Len(ClientSent)
    /\ \A i \in 1 .. n : IsData(ClientSent[i]) /\ (ClientSent[i].fin <=> i = n)

\* C26: on a stream that starts with N data frames, the first N-1 with
\* fin=false and the last with fin=true, of total payload within the maximum,
\* ReadMessage returns nothing before frame N is read and, having read exactly
\* N frames, returns one message: the N payloads in arrival order.
C26_FragmentsConcatenated ==
    \A n \in 1 .. Len(ClientSent) :
        (C26_Fragments(n)
            /\ Len(Concat(SubSeq(ClientSent, 1, n))) <= MaxMessageSize) =>
          /\ Taken < n => delivered[1] = <<>>
          /\ Taken = n => Len(delivered[1]) = 1
          /\ Taken >= n =>
                delivered[1][1] = [message |-> Concat(SubSeq(ClientSent, 1, n)),
                                   taken |-> n]

\* A text frame without fin and a final continuation frame with a different
\* byte were read, and the message is the two bytes in that order.
C26_Witness ==
    /\ Len(ClientSent) = 2
    /\ Taken = 2
    /\ ClientSent[1] = [fin |-> FALSE, opCode |-> opCodeText, payload |-> <<37>>]
    /\ ClientSent[2] = [fin |-> TRUE, opCode |-> opCodeContinuation, payload |-> <<0>>]
    /\ delivered[1] = <<[message |-> <<37, 0>>, taken |-> 2]>>

\* ------------------------------------------------------------------ C27
\* The worker reads the next frame of the client in this step.
ReadsFrame == stream'[1].taken = Taken + 1 /\ Taken < Len(ClientSent)

Pongs(frames) == {i \in 1 .. Len(frames) : frames[i].opCode = opCodePong}

\* C27: reading a ping writes exactly one pong frame with the ping's payload
\* and reading a pong writes nothing; neither ends the ReadMessage call nor
\* adds to the message it gathers or to the messages it has returned; and the
\* pongs written are as many as the pings read.
C27_PingPong ==
    [][/\ (ReadsFrame /\ ClientSent[Taken + 1].opCode = opCodePing) =>
            /\ sent'[1] = Append(sent[1],
                                 [fin |-> TRUE, opCode |-> opCodePong,
                                  payload |-> ClientSent[Taken + 1].payload,
                                  text |-> ""])
            /\ delivered' = delivered /\ message' = message /\ pc'[1] = "read"
       /\ (ReadsFrame /\ ClientSent[Taken + 1].opCode = opCodePong) =>
            /\ sent' = sent
            /\ delivered' = delivered /\ message' = message /\ pc'[1] = "read"
       /\ Cardinality(Pongs(sent'[1])) =
             Cardinality({i \in 1 .. stream'[1].taken :
                             i <= Len(stream'[1].frames)
                             /\ stream'[1].frames[i].opCode = opCodePing})]_vars

\* Between the two fragments of a message a ping with a payload and a pong
\* were read: one pong with that payload went out, and the message is whole.
C27_Witness ==
    /\ Len(ClientSent) = 3
    /\ ClientSent[2] = [fin |-> TRUE, opCode |-> opCodePing, payload |-> <<37>>]
    /\ Taken = 3
    /\ sent[1] = <<[fin |-> TRUE, opCode |-> opCodePong, payload |-> <<37>>,
                    text |-> ""]>>
    /\ delivered[1] = <<[message |-> <<0>>, taken |-> 3]>>

\* ------------------------------------------------------------------ C28
\* The first n frames sent are fragments of one message, none of them final
\* before the n-th, and together they exceed the maximum message size.
C28_Oversize(n) ==
    /\ n <= Len(ClientSent)
    /\ \A i \in 1 .. n : IsData(ClientSent[i])
    /\ \A i \in 1 .. n - 1 : ~ClientSent[i].fin
    /\ Len(Concat(SubSeq(ClientSent, 1, n))) > MaxMessageSize

\* C28: when the fragments of a message exceed the maximum message size, once
\* the worker has read them no message was delivered, a close frame with
\* status 1009 was written, the worker has left its read loop with an error,
\* and the connection is removed with a size-related reason.
C28_SizeLimitCloses ==
    \A n \in 1 .. Len(ClientSent) :
        (C28_Oversize(n) /\ Taken >= n) =>
          /\ delivered[1] = <<>>
          /\ \E i \in 1 .. Len(sent[1]) :
                sent[1][i].opCode = opCodeClose /\ sent[1][i].payload = <<3, 241>>
          /\ pc[1] # "read"
          /\ removedReason[1] \in {"", ErrSizeLimit, ErrPayloadTooLarge}

\* ------------------------------------------------------------------ C29
\* C29: over the lifetime of a connection at most one close frame is written
\* to its transport.
C29_OneCloseFrame == \A x \in ConnIDs : closeFrames[x] <= 1

\* ------------------------------------------------------------------ C30
\* The last frame the worker read is a close frame.
C30_CloseRead == Taken > 0 /\ Taken <= Len(ClientSent)
                 /\ ClientSent[Taken].opCode = opCodeClose

\* C30: reading a close frame ends ReadMessage with "client closed
\* connection" and no message; from then on the worker reads nothing more
\* from the transport; and when the transport is closed a close frame has
\* been written on it.
C30_CloseHandshake ==
    [][/\ (ReadsFrame /\ ClientSent[Taken + 1].opCode = opCodeClose) =>
            /\ reason'[1] = "client closed connection"
            /\ pc'[1] # "read"
            /\ delivered' = delivered
       /\ C30_CloseRead => stream' = stream
       /\ (C30_CloseRead /\ closed'[1]) => closeFrames'[1] >= 1]_vars

\* After a message the client's close frame was read; the connection was
\* removed for that reason and its transport closed after one close frame.
C30_Witness ==
    /\ C30_CloseRead
    /\ Taken = 2
    /\ Len(delivered[1]) = 1
    /\ removedReason[1] = "client closed connection"
    /\ closed[1]
    /\ closeFrames[1] = 1

\* ------------------------------------------------------------------ C31
\* C31: the offline event published when the read loop exits carries the
\* reason of the exit: "normal closure" after the peer's close frame, a
\* size-exceeded reason after a message-size violation, and otherwise the
\* text of the transport's error.
C31_ReasonClasses ==
    \A i \in EventsOf(EventConnOffline, 1) :
        LET why == published[1][i].CloseReason
        IN  IF C30_CloseRead THEN why = "normal closure"
            ELSE why \in {ErrSizeLimit, ErrPayloadTooLarge, ErrEOF}

\* ------------------------------------------------------------------ C32
\* The chain of the trace was entered and has returned.
C32_Returned(trace) ==
    /\ trace # <<>>
    /\ trace[1][1] = "enter"
    /\ trace[Len(trace)] = <<"leave", trace[1][2]>>

\* The worker of r reads a message in this step.
C32_Reads(r) == msg'[r] # msg[r] /\ msg'[r] # NoMessage

\* C32: the messages of one connection are handled one at a time, in the
\* order they were read: a message is read only when no message is being
\* handled and every handler chain started before has returned, and the
\* message handled by an iteration is the one read last.
C32_OneAtATime ==
    [][\A r \in Requests :
          /\ C32_Reads(r)
                => /\ pc[r] = "read"
                   /\ msg[r] = NoMessage
                   /\ served'[r] = served[r]
                   /\ \A i \in 1 .. Len(served[r]) :
                         (served[r][i].dispatched /\ served[r][i].err = Nil)
                             => C32_Returned(served[r][i].trace)
          /\ served'[r] # served[r]
                => /\ Len(served'[r]) = Len(served[r]) + 1
                   /\ SubSeq(served'[r], 1, Len(served[r])) = served[r]
                   /\ served'[r][Len(served'[r])].raw = msg[r]
                   /\ msg'[r] = NoMessage]_vars

\* Two different messages were handled by their handler chains, one after the
\* other, and the worker is back at ReadMessage.
C32_Witness ==
    /\ Len(served[1]) = 2
    /\ \A i \in 1 .. 2 : C32_Returned(served[1][i].trace)
    /\ served[1][1].raw # served[1][2].raw
    /\ pc[1] = "read"

\* ------------------------------------------------------------------ C33
\* The application goroutine has taken the record of connection 1 out of the
\* registry while the worker of connection 1 is blocked in ReadMessage.
C33_Kicked ==
    /\ pc[1] = "read"
    /\ \E t \in AppThreads : pc[t] = "rm_publish" /\ target[t] = NewConnID(1)

\* The worker of connection 1 has returned: its RemoveConn found no record,
\* the one offline event carries the application's reason, and the counter
\* counts the handlers still running.
C33_WorkerGone ==
    /\ pc[1] = "done"
    /\ removeCalls[1] = 2
    /\ NewConnID(1) \notin connMap
    /\ Cardinality(EventsOf(EventConnOffline, NewConnID(1))) = 1
    /\ \A i \in EventsOf(EventConnOffline, NewConnID(1)) :
          published[NewConnID(1)][i].CloseReason = KickReason
    /\ connectionCount = Cardinality({r \in Requests : pc[r] # "done"})

\* C33: when CloseConnByConnID removes a connection whose worker is blocked
\* in ReadMessage, in every fair execution the read returns an error, the
\* worker leaves its loop, its own RemoveConn is a no-op so that the only
\* offline event carries the application's reason, and connectionCount is
\* decremented.
C33_KickUnblocksWorker == C33_Kicked ~> C33_WorkerGone

\* The application's RemoveConn has closed the transport and returned while
\* the worker is still inside ReadMessage.
C33_Witness ==
    /\ pc[1] = "read"
    /\ closed[NewConnID(1)]
    /\ removedReason[NewConnID(1)] = KickReason
    /\ \A t \in AppThreads : pc[t] = "idle"

\* ------------------------------------------------------------------ C34
\* A frame with a reserved bit set or with an opcode RFC 6455 does not define.
C34_Violation(f) == f.rsv # 0 \/ f.opCode \notin OpCodes

\* C34: once the worker has read a frame with a reserved bit or an undefined
\* opcode, ReadMessage has returned an error (the worker has left its read
\* loop) and no message returned holds the frame.
C34_ProtocolErrors ==
    \A i \in 1 .. Len(ClientSent) :
        (i <= Taken /\ C34_Violation(ClientSent[i]))
            => /\ pc[1] # "read"
               /\ \A k \in 1 .. Len(delivered[1]) : delivered[1][k].taken < i

\* ------------------------------------------------------------------ C37
\* C37: the message ReadMessage gathers, and every message it returns, is at
\* most the size limit after every step; and reading a frame whose header
\* declares more than the size limit, in the 7-bit, 16-bit or 64-bit form,
\* fails with "payload too large" after the header alone was taken from the
\* transport, neither the mask nor a payload byte, and adds nothing to the
\* message.
C37_SizeBounded ==
    [][/\ Len(message'[1]) <= MaxMessageSize
       /\ \A k \in 1 .. Len(delivered'[1]) :
             Len(delivered'[1][k].message) <= MaxMessageSize
       /\ (ReadsFrame /\ ClientSent[Taken + 1].declared > MaxMessageSize)
             => /\ reason'[1] = ErrPayloadTooLarge
                /\ pc'[1] # "read"
                /\ Len(stream[1].unread) - Len(stream'[1].unread)
                      = 2 + ExtLen(ClientSent[Taken + 1].form)
                /\ message' = message
                /\ delivered' = delivered]_vars

\* A message of exactly the size limit, sent with a 16-bit length, was
\* returned, and the next header, declaring 65536 bytes in the 64-bit form,
\* was refused.
C37_Witness ==
    /\ Taken = 2
    /\ Len(ClientSent) = 2
    /\ ClientSent[1].declared = MaxMessageSize /\ ClientSent[1].form = 16
    /\ ClientSent[2].declared = 65536
    /\ reason[1] = ErrPayloadTooLarge
    /\ Len(delivered[1]) = 1

\* ------------------------------------------------------------------ C38
\* The goroutine has begun its OnConnEvent call.
C38_Begun(k) == goroutines[k].at # "started"

\* C38: a listener that holds its subscription from before AddConn on sees
\* the events of a connection in order: the OnConnEvent call for the offline
\* event has begun only when the call for the online event has begun.
C38_OnlineBeginsFirst ==
    \A j, k \in 1 .. Len(goroutines) :
        (/\ goroutines[j].id = goroutines[k].id
         /\ goroutines[j].listener = goroutines[k].listener
         /\ goroutines[j].event.ConnID = goroutines[k].event.ConnID
         /\ goroutines[j].event.EventType = EventConnOnline
         /\ goroutines[k].event.EventType = EventConnOffline
         /\ C38_Begun(k))
            => C38_Begun(j)

\* ------------------------------------------------------------------ C39
\* C39: once the offline event of a connection is published, by its worker or
\* by CloseConnByConnID, the worker of the connection reads no further
\* message and runs no further handler.
C39_QuietAfterOffline ==
    [][\A r \in Requests :
          EventsOf(EventConnOffline, NewConnID(r)) # {}
              => /\ ~C32_Reads(r)
                 /\ served'[r] = served[r]]_vars

\* ------------------------------------------------------------------ C35
\* C35: Stop ends the acceptance of handshakes and touches nothing else.  The
\* Stop step raises no fault, whatever the requests are doing, and leaves the
\* registry, the events, the transports and every handler where they are;
\* and once Stop has returned no request enters handleRequest, so that no
\* connection is registered for one.
C35_StopLeavesConnections ==
    [][/\ (inShutdown' /\ ~inShutdown)
            => /\ fault' = "none"
               /\ UNCHANGED <<pc, upc, connMap, published, closed, closeFrames>>
       /\ inShutdown
            => \A r \in Requests : pc[r] = "idle" => pc'[r] = "idle"]_vars

\* ------------------------------------------------------------------ C36
\* base64(sha1(key + GUID)) of the keys, as RFC 6455 and its test vectors
\* give it.
C36_Accept(key) ==
    CASE key = "dGhlIHNhbXBsZSBub25jZQ==" -> "s3pPLMBiTxaQ9kYGzzhZRbK+xOo="
      [] key = "x3JJHMbDL1EzLkh9GBhXDw==" -> "HSmrc0sMlYUkAGmm5OPpG2HaGWk="
      [] OTHER -> ""

\* C36: a request that passes every check of the handshake is answered with
\* the 101 response whose Sec-WebSocket-Accept is base64(sha1(key + GUID)),
\* "s3pPLMBiTxaQ9kYGzzhZRbK+xOo=" for the key "dGhlIHNhbXBsZSBub25jZQ==";
\* the response is written on the hijacked transport, and before any frame.
C36_AcceptKey ==
    \A r \in Requests :
        /\ wrote101[r]
              => /\ hijacked[r]
                 /\ hdr[r].key \in ClientKeys
                 /\ accept[r] = C36_Accept(hdr[r].key)
        /\ ~wrote101[r]
              => /\ accept[r] = ""
                 /\ closeFrames[NewConnID(r)] = 0
                 /\ NewConnID(r) \notin connMap
        /\ (upc[r] \in {"send", "exited"} /\ err[r] = Nil) => wrote101[r]

\* The handshake with a key other than the one of RFC 6455 was answered with
\* the value of that key, and the connection is established.
C36_Witness ==
    /\ hdr[1].key = "x3JJHMbDL1EzLkh9GBhXDw=="
    /\ accept[1] = "HSmrc0sMlYUkAGmm5OPpG2HaGWk="
    /\ pc[1] = "read"

\* ------------------------------------------------------------------ C40
\* C40: a connection that is visible, stored in the registry by AddConn, has
\* the limits of the configuration, and every frame written to a connection
\* is written under the configured write deadline.
C40_ConfiguredWhenVisible ==
    [][\A x \in ConnIDs :
          /\ x \in connMap' => connCfg'[x] = ConfiguredConn
          /\ closeFrames'[x] > closeFrames[x]
                => WriteDeadline(connCfg[x]) = WriteTimeout]_vars

====
